---- MODULE Spec2Model ----
(***************************************************************************)
(* A model of the AST of clickhouse-sql-parser (parser/ast.go): the node   *)
(* variants as records, and the three operations every node exposes,       *)
(* Pos()/End(), String(level) and Accept(visitor), as recursive operators  *)
(* over those records.  An absent child (a nil pointer or nil interface)   *)
(* is the record Nil.  The state machine picks a tree, a print level and a *)
(* visitor in Init and then applies the operations to the tree.            *)
(***************************************************************************)
EXTENDS Integers, Sequences, FiniteSets, TLC

VARIABLES root, level, visitor, text, calls, trace, ret, range, reparsed, argv, exit

vars == <<root, level, visitor, text, calls, trace, ret, range, reparsed, argv, exit>>

\* ------------------------------------------------------------------ bounds
MaxLevel == 1
MaxCols == 2

\* source texts start at offsets 0..MaxStart
MaxStart == 1

\* String is called on the root up to MaxCalls times
MaxCalls == 2

\* ------------------------------------------------------------ node model
Nil == [kind |-> "nil"]

Ident(name, quote) == [kind |-> "Ident", Name |-> name, QuoteType |-> quote]

NumberLiteral(lit) == [kind |-> "NumberLiteral", Literal |-> lit]

StringLiteral(lit) == [kind |-> "StringLiteral", Literal |-> lit]

TernaryExpr(c, t, f) ==
    [kind |-> "TernaryExpr", Condition |-> c, TrueExpr |-> t, FalseExpr |-> f]

BinaryExpr(l, o, r, g, n) ==
    [kind |-> "BinaryExpr", LeftExpr |-> l, Operation |-> o, RightExpr |-> r,
     HasGlobal |-> g, HasNot |-> n]

JoinTableExpr(t, s, f) ==
    [kind |-> "JoinTableExpr", Table |-> t, SampleRatio |-> s, HasFinal |-> f]

NestedIdentifier(i, d) == [kind |-> "NestedIdentifier", Ident |-> i, DotIdent |-> d]

TableIdentifier(d, t) == [kind |-> "TableIdentifier", Database |-> d, Table |-> t]

ColumnIdentifier(d, t, c) ==
    [kind |-> "ColumnIdentifier", Database |-> d, Table |-> t, Column |-> c]

RatioExpr(n, d) == [kind |-> "RatioExpr", Numerator |-> n, Denominator |-> d]

SampleRatioExpr(r, o) == [kind |-> "SampleRatioExpr", Ratio |-> r, Offset |-> o]

TableExpr(e, a, f) == [kind |-> "TableExpr", Alias |-> a, Expr |-> e, HasFinal |-> f]

ExtractExpr(i, e) == [kind |-> "ExtractExpr", Interval |-> i, FromExpr |-> e]

ColumnExprList(d, items) == [kind |-> "ColumnExprList", HasDistinct |-> d, Items |-> items]

OnClusterExpr(e) == [kind |-> "OnClusterExpr", Expr |-> e]

UUID(v) == [kind |-> "UUID", Value |-> v]

PartitionExpr(e, id, all) == [kind |-> "PartitionExpr", Expr |-> e, ID |-> id, All |-> all]

SettingsExpr(n, e) == [kind |-> "SettingsExpr", Name |-> n, Expr |-> e]

SettingsExprList(items) == [kind |-> "SettingsExprList", Items |-> items]

AlterTable(t, c, exprs) ==
    [kind |-> "AlterTable", TableIdentifier |-> t, OnCluster |-> c, AlterExprs |-> exprs]

AlterTableDetachPartition(p, s) ==
    [kind |-> "AlterTableDetachPartition", Partition |-> p, Settings |-> s]

AlterTableAddColumn(c, ine, a) ==
    [kind |-> "AlterTableAddColumn", Column |-> c, IfNotExists |-> ine, After |-> a]

AlterTableDropColumn(c, ie) ==
    [kind |-> "AlterTableDropColumn", ColumnName |-> c, IfExists |-> ie]

AlterTableDropIndex(n, ie) ==
    [kind |-> "AlterTableDropIndex", IndexName |-> n, IfExists |-> ie]

AlterTableClearColumn(ie, c, p) ==
    [kind |-> "AlterTableClearColumn", IfExists |-> ie, ColumnName |-> c, PartitionExpr |-> p]

AlterTableRenameColumn(ie, o, n) ==
    [kind |-> "AlterTableRenameColumn", IfExists |-> ie, OldColumnName |-> o,
     NewColumnName |-> n]

ScalarTypeExpr(n) == [kind |-> "ScalarTypeExpr", Name |-> n]

Column(n, t) ==
    [kind |-> "Column", Name |-> n, Type |-> t, NotNull |-> Nil, Nullable |-> Nil,
     Property |-> Nil, Codec |-> Nil, TTL |-> Nil, Comment |-> Nil,
     CompressionCodec |-> Nil]

TableSchemaExpr(cols, a, f) ==
    [kind |-> "TableSchemaExpr", Columns |-> cols, AliasTable |-> a, TableFunction |-> f]

DestinationExpr(t, s) ==
    [kind |-> "DestinationExpr", TableIdentifier |-> t, TableSchema |-> s]

SubQueryExpr(s) == [kind |-> "SubQueryExpr", Select |-> s]

CreateTable(n, ine, u, c, s, e, q, tmp) ==
    [kind |-> "CreateTable", Name |-> n, IfNotExists |-> ine, UUID |-> u, OnCluster |-> c,
     TableSchema |-> s, Engine |-> e, SubQuery |-> q, HasTemporary |-> tmp]

CreateMaterializedView(n, ine, c, e, d, q, p) ==
    [kind |-> "CreateMaterializedView", Name |-> n, IfNotExists |-> ine, OnCluster |-> c,
     Engine |-> e, Destination |-> d, SubQuery |-> q, Populate |-> p]

WhenExpr(w, t, e) == [kind |-> "WhenExpr", When |-> w, Then |-> t, Else |-> e]

CaseExpr(e, whens, els) == [kind |-> "CaseExpr", Expr |-> e, Whens |-> whens, Else |-> els]

WithExpr(ctes) == [kind |-> "WithExpr", CTEs |-> ctes]

CTEExpr(e, a) == [kind |-> "CTEExpr", Expr |-> e, Alias |-> a]

TopExpr(n, w) == [kind |-> "TopExpr", Number |-> n, WithTies |-> w]

CompressionCodec(n, l) == [kind |-> "CompressionCodec", Name |-> n, Level |-> l]

WindowFrameNumber(n, d) == [kind |-> "WindowFrameNumber", Number |-> n, Direction |-> d]

WindowFrameUnbounded(d) == [kind |-> "WindowFrameUnbounded", Direction |-> d]

WindowFrameCurrentRow == [kind |-> "WindowFrameCurrentRow"]

WindowFrameExpr(t, e) == [kind |-> "WindowFrameExpr", Type |-> t, Extend |-> e]

WindowConditionExpr(p, o, f) ==
    [kind |-> "WindowConditionExpr", PartitionBy |-> p, OrderBy |-> o, Frame |-> f]

WindowExpr(c, n) == [kind |-> "WindowExpr", WindowConditionExpr |-> c, Name |-> n]

UnaryExpr(k, e) == [kind |-> "UnaryExpr", Kind |-> k, Expr |-> e]

CheckExpr(t, p) == [kind |-> "CheckExpr", Table |-> t, Partition |-> p]

RoleName(n, s, c) == [kind |-> "RoleName", Name |-> n, Scope |-> s, OnCluster |-> c]

PrivilegeExpr(ks, p) == [kind |-> "PrivilegeExpr", Keywords |-> ks, Params |-> p]

GrantPrivilegeExpr(c, ps, on, to, opts) ==
    [kind |-> "GrantPrivilegeExpr", OnCluster |-> c, Privileges |-> ps, On |-> on,
     To |-> to, WithOptions |-> opts]

JoinExpr(l, r, m, c) ==
    [kind |-> "JoinExpr", Left |-> l, Right |-> r, Modifiers |-> m, Constraints |-> c]

JoinConstraintExpr(on, using) == [kind |-> "JoinConstraintExpr", On |-> on, Using |-> using]

FromExpr(e) == [kind |-> "FromExpr", Expr |-> e]

IsNullExpr(e) == [kind |-> "IsNullExpr", Expr |-> e]

AliasExpr(e, a) == [kind |-> "AliasExpr", Expr |-> e, Alias |-> a]

WhereExpr(e) == [kind |-> "WhereExpr", Expr |-> e]

LimitExpr(l, o) == [kind |-> "LimitExpr", Limit |-> l, Offset |-> o]

LimitByExpr(l, b) == [kind |-> "LimitByExpr", Limit |-> l, ByExpr |-> b]

SelectQuery(with, top, cols, from, where, limitBy, limit, settings, ua, ud, ex) ==
    [kind |-> "SelectQuery", With |-> with, Top |-> top, SelectColumns |-> cols,
     From |-> from, ArrayJoin |-> Nil, Window |-> Nil, Prewhere |-> Nil, Where |-> where,
     GroupBy |-> Nil, WithTotal |-> FALSE, Having |-> Nil, OrderBy |-> Nil,
     LimitBy |-> limitBy, Limit |-> limit, Settings |-> settings,
     UnionAll |-> ua, UnionDistinct |-> ud, Except |-> ex]

SystemFlushExpr(l, d) == [kind |-> "SystemFlushExpr", Logs |-> l, Distributed |-> d]

\* ------------------------------------------------------- visitor protocol
\* An Accept method is  enter; defer leave; the children's Accept calls, each
\* returning early on a failure; the Visit hook.  Each variant's Accept is
\* modelled by the children it walks, in the order it walks them, and by
\* whether control reaches its own Visit hook when every child succeeds.

Kid(f, c) == <<[at |-> f, node |-> c]>>

Opt(f, c) == IF c = Nil THEN <<>> ELSE Kid(f, c)

Each(f, cs) == [i \in 1..Len(cs) |-> [at |-> <<f, ToString(i)>>, node |-> cs[i]]]

Walk(kids) == [kids |-> kids, hook |-> TRUE]

LeafAccept(n) == Walk(<<>>)

TernaryExprAccept(t) ==
    Walk(Kid(<<"TrueExpr">>, t.TrueExpr) \o Kid(<<"FalseExpr">>, t.FalseExpr)
         \o Kid(<<"Condition">>, t.Condition))

BinaryExprAccept(p) ==
    Walk(Kid(<<"LeftExpr">>, p.LeftExpr) \o Kid(<<"RightExpr">>, p.RightExpr))

JoinTableExprAccept(j) ==
    IF j.SampleRatio # Nil
    THEN [kids |-> Kid(<<"Table">>, j.Table) \o Kid(<<"SampleRatio">>, j.SampleRatio),
          hook |-> FALSE]
    ELSE Walk(Kid(<<"Table">>, j.Table))

AlterTableAccept(a) ==
    Walk(Opt(<<"OnCluster">>, a.OnCluster) \o Each("AlterExprs", a.AlterExprs))

AlterTableDetachPartitionAccept(a) ==
    Walk(Kid(<<"Partition">>, a.Partition) \o Opt(<<"Settings">>, a.Settings))

AlterTableAddColumnAccept(a) ==
    Walk(Kid(<<"Column">>, a.Column) \o Opt(<<"After">>, a.After))

AlterTableDropColumnAccept(a) == Walk(Kid(<<"ColumnName">>, a.ColumnName))

AlterTableDropIndexAccept(a) == Walk(Kid(<<"IndexName">>, a.IndexName))

AlterTableClearColumnAccept(a) ==
    Walk(Kid(<<"ColumnName">>, a.ColumnName) \o Opt(<<"PartitionExpr">>, a.PartitionExpr))

AlterTableRenameColumnAccept(a) ==
    Walk(Kid(<<"OldColumnName">>, a.OldColumnName)
         \o Kid(<<"NewColumnName">>, a.NewColumnName))

UUIDAccept(u) == Walk(<<>>)

CreateTableAccept(c) ==
    Walk(Opt(<<"UUID">>, c.UUID) \o Opt(<<"OnCluster">>, c.OnCluster)
         \o Opt(<<"TableSchema">>, c.TableSchema) \o Opt(<<"Engine">>, c.Engine)
         \o Opt(<<"SubQuery">>, c.SubQuery))

CreateMaterializedViewAccept(c) ==
    Walk(Kid(<<"Name">>, c.Name) \o Opt(<<"OnCluster">>, c.OnCluster)
         \o Opt(<<"Engine">>, c.Engine)
         \o (IF c.Destination # Nil
             THEN Kid(<<"Destination">>, c.Destination)
                  \o Opt(<<"Destination", "TableSchema">>, c.Destination.TableSchema)
             ELSE <<>>)
         \o Opt(<<"SubQuery">>, c.SubQuery))

DestinationExprAccept(d) == Walk(Kid(<<"TableIdentifier">>, d.TableIdentifier))

NestedIdentifierAccept(n) ==
    Walk(Kid(<<"Ident">>, n.Ident) \o Opt(<<"DotIdent">>, n.DotIdent))

TableIdentifierAccept(t) ==
    Walk(Opt(<<"Database">>, t.Database) \o Kid(<<"Table">>, t.Table))

ColumnIdentifierAccept(c) ==
    Walk(Opt(<<"Database">>, c.Database) \o Opt(<<"Table">>, c.Table)
         \o Kid(<<"Column">>, c.Column))

TableSchemaExprAccept(t) ==
    Walk(Each("Columns", t.Columns) \o Opt(<<"AliasTable">>, t.AliasTable)
         \o Opt(<<"TableFunction">>, t.TableFunction))

OnClusterExprAccept(o) == Walk(Kid(<<"Expr">>, o.Expr))

PartitionExprAccept(p) == Walk(Opt(<<"Expr">>, p.Expr) \o Opt(<<"ID">>, p.ID))

SettingsExprAccept(s) == Walk(Kid(<<"Name">>, s.Name) \o Kid(<<"Expr">>, s.Expr))

SettingsExprListAccept(s) == Walk(Each("Items", s.Items))

ColumnAccept(c) ==
    Walk(Kid(<<"Name">>, c.Name) \o Opt(<<"Type">>, c.Type) \o Opt(<<"NotNull">>, c.NotNull)
         \o Opt(<<"Nullable">>, c.Nullable) \o Opt(<<"Property">>, c.Property)
         \o Opt(<<"Codec">>, c.Codec) \o Opt(<<"TTL">>, c.TTL)
         \o Opt(<<"Comment">>, c.Comment))

ScalarTypeExprAccept(s) == Walk(Kid(<<"Name">>, s.Name))

RatioExprAccept(r) ==
    Walk(Kid(<<"Numerator">>, r.Numerator) \o Opt(<<"Denominator">>, r.Denominator))

ColumnExprListAccept(c) == Walk(Each("Items", c.Items))

WhenExprAccept(w) ==
    Walk(Kid(<<"When">>, w.When) \o Kid(<<"Then">>, w.Then) \o Opt(<<"Else">>, w.Else))

CaseExprAccept(c) ==
    Walk(Kid(<<"Expr">>, c.Expr) \o Each("Whens", c.Whens) \o Opt(<<"Else">>, c.Else))

WithExprAccept(w) == Walk(Each("CTEs", w.CTEs))

TopExprAccept(t) == Walk(Kid(<<"Number">>, t.Number))

CompressionCodecAccept(c) == Walk(Kid(<<"Name">>, c.Name) \o Opt(<<"Level">>, c.Level))

WindowFrameNumberAccept(f) == Walk(Kid(<<"Number">>, f.Number))

WindowFrameExprAccept(f) == Walk(Kid(<<"Extend">>, f.Extend))

WindowConditionExprAccept(w) ==
    Walk(Opt(<<"PartitionBy">>, w.PartitionBy) \o Opt(<<"OrderBy">>, w.OrderBy)
         \o Opt(<<"Frame">>, w.Frame))

WindowExprAccept(w) ==
    Walk(Opt(<<"WindowConditionExpr">>, w.WindowConditionExpr) \o Opt(<<"Name">>, w.Name))

UnaryExprAccept(n) == Walk(Kid(<<"Expr">>, n.Expr))

CheckExprAccept(c) == Walk(Kid(<<"Table">>, c.Table) \o Opt(<<"Partition">>, c.Partition))

RoleNameAccept(r) ==
    Walk(Kid(<<"Name">>, r.Name) \o Opt(<<"Scope">>, r.Scope)
         \o Opt(<<"OnCluster">>, r.OnCluster))

PrivilegeExprAccept(p) == Walk(Opt(<<"Params">>, p.Params))

GrantPrivilegeExprAccept(g) ==
    Walk(Opt(<<"OnCluster">>, g.OnCluster) \o Each("Privileges", g.Privileges)
         \o Kid(<<"On">>, g.On) \o Each("To", g.To))

TableExprAccept(t) == Walk(Kid(<<"Expr">>, t.Expr) \o Opt(<<"Alias">>, t.Alias))

JoinExprAccept(j) ==
    Walk(Kid(<<"Left">>, j.Left) \o Opt(<<"Right">>, j.Right)
         \o Opt(<<"Constraints">>, j.Constraints))

JoinConstraintExprAccept(j) == Walk(Opt(<<"On">>, j.On) \o Opt(<<"Using">>, j.Using))

FromExprAccept(f) == Walk(Kid(<<"Expr">>, f.Expr))

IsNullExprAccept(n) == Walk(Kid(<<"Expr">>, n.Expr))

AliasExprAccept(a) == Walk(Kid(<<"Expr">>, a.Expr) \o Kid(<<"Alias">>, a.Alias))

WhereExprAccept(w) == Walk(Kid(<<"Expr">>, w.Expr))

LimitExprAccept(l) == Walk(Kid(<<"Limit">>, l.Limit) \o Opt(<<"Offset">>, l.Offset))

LimitByExprAccept(l) == Walk(Opt(<<"Limit">>, l.Limit) \o Opt(<<"ByExpr">>, l.ByExpr))

SelectQueryAccept(s) ==
    Walk(Opt(<<"With">>, s.With) \o Opt(<<"Top">>, s.Top)
         \o Opt(<<"SelectColumns">>, s.SelectColumns) \o Opt(<<"From">>, s.From)
         \o Opt(<<"ArrayJoin">>, s.ArrayJoin) \o Opt(<<"Window">>, s.Window)
         \o Opt(<<"Prewhere">>, s.Prewhere) \o Opt(<<"Where">>, s.Where)
         \o Opt(<<"GroupBy">>, s.GroupBy) \o Opt(<<"Having">>, s.Having)
         \o Opt(<<"OrderBy">>, s.OrderBy) \o Opt(<<"LimitBy">>, s.LimitBy)
         \o Opt(<<"Limit">>, s.Limit) \o Opt(<<"Settings">>, s.Settings)
         \o Opt(<<"UnionAll">>, s.UnionAll) \o Opt(<<"UnionDistinct">>, s.UnionDistinct)
         \o Opt(<<"Except">>, s.Except))

SubQueryExprAccept(s) == Walk(Opt(<<"Select">>, s.Select))

ExtractExprAccept(e) == Walk(Kid(<<"FromExpr">>, e.FromExpr))

CTEExprAccept(c) == Walk(Kid(<<"Expr">>, c.Expr) \o Kid(<<"Alias">>, c.Alias))

SystemFlushExprAccept(s) == Walk(Opt(<<"Distributed">>, s.Distributed))

SampleRatioExprAccept(s) == Walk(Kid(<<"Ratio">>, s.Ratio) \o Opt(<<"Offset">>, s.Offset))

\* dynamic dispatch of Accept on the variant of the node
AcceptPlan(n) ==
    CASE n.kind \in {"Ident", "NumberLiteral", "StringLiteral"} -> LeafAccept(n)
      [] n.kind = "TernaryExpr" -> TernaryExprAccept(n)
      [] n.kind = "BinaryExpr" -> BinaryExprAccept(n)
      [] n.kind = "JoinTableExpr" -> JoinTableExprAccept(n)
      [] n.kind = "AlterTable" -> AlterTableAccept(n)
      [] n.kind = "AlterTableDetachPartition" -> AlterTableDetachPartitionAccept(n)
      [] n.kind = "AlterTableAddColumn" -> AlterTableAddColumnAccept(n)
      [] n.kind = "AlterTableDropColumn" -> AlterTableDropColumnAccept(n)
      [] n.kind = "AlterTableDropIndex" -> AlterTableDropIndexAccept(n)
      [] n.kind = "AlterTableClearColumn" -> AlterTableClearColumnAccept(n)
      [] n.kind = "AlterTableRenameColumn" -> AlterTableRenameColumnAccept(n)
      [] n.kind = "UUID" -> UUIDAccept(n)
      [] n.kind = "CreateTable" -> CreateTableAccept(n)
      [] n.kind = "CreateMaterializedView" -> CreateMaterializedViewAccept(n)
      [] n.kind = "DestinationExpr" -> DestinationExprAccept(n)
      [] n.kind = "NestedIdentifier" -> NestedIdentifierAccept(n)
      [] n.kind = "TableIdentifier" -> TableIdentifierAccept(n)
      [] n.kind = "ColumnIdentifier" -> ColumnIdentifierAccept(n)
      [] n.kind = "TableSchemaExpr" -> TableSchemaExprAccept(n)
      [] n.kind = "OnClusterExpr" -> OnClusterExprAccept(n)
      [] n.kind = "PartitionExpr" -> PartitionExprAccept(n)
      [] n.kind = "SettingsExpr" -> SettingsExprAccept(n)
      [] n.kind = "SettingsExprList" -> SettingsExprListAccept(n)
      [] n.kind = "Column" -> ColumnAccept(n)
      [] n.kind = "ScalarTypeExpr" -> ScalarTypeExprAccept(n)
      [] n.kind = "RatioExpr" -> RatioExprAccept(n)
      [] n.kind = "ColumnExprList" -> ColumnExprListAccept(n)
      [] n.kind = "WhenExpr" -> WhenExprAccept(n)
      [] n.kind = "CaseExpr" -> CaseExprAccept(n)
      [] n.kind = "WithExpr" -> WithExprAccept(n)
      [] n.kind = "TopExpr" -> TopExprAccept(n)
      [] n.kind = "CompressionCodec" -> CompressionCodecAccept(n)
      [] n.kind = "WindowFrameNumber" -> WindowFrameNumberAccept(n)
      [] n.kind \in {"WindowFrameUnbounded", "WindowFrameCurrentRow"} -> LeafAccept(n)
      [] n.kind = "WindowFrameExpr" -> WindowFrameExprAccept(n)
      [] n.kind = "WindowConditionExpr" -> WindowConditionExprAccept(n)
      [] n.kind = "WindowExpr" -> WindowExprAccept(n)
      [] n.kind = "UnaryExpr" -> UnaryExprAccept(n)
      [] n.kind = "CheckExpr" -> CheckExprAccept(n)
      [] n.kind = "RoleName" -> RoleNameAccept(n)
      [] n.kind = "PrivilegeExpr" -> PrivilegeExprAccept(n)
      [] n.kind = "GrantPrivilegeExpr" -> GrantPrivilegeExprAccept(n)
      [] n.kind = "TableExpr" -> TableExprAccept(n)
      [] n.kind = "JoinExpr" -> JoinExprAccept(n)
      [] n.kind = "JoinConstraintExpr" -> JoinConstraintExprAccept(n)
      [] n.kind = "FromExpr" -> FromExprAccept(n)
      [] n.kind = "IsNullExpr" -> IsNullExprAccept(n)
      [] n.kind = "AliasExpr" -> AliasExprAccept(n)
      [] n.kind = "WhereExpr" -> WhereExprAccept(n)
      [] n.kind = "LimitExpr" -> LimitExprAccept(n)
      [] n.kind = "LimitByExpr" -> LimitByExprAccept(n)
      [] n.kind = "SelectQuery" -> SelectQueryAccept(n)
      [] n.kind = "SubQueryExpr" -> SubQueryExprAccept(n)
      [] n.kind = "ExtractExpr" -> ExtractExprAccept(n)
      [] n.kind = "CTEExpr" -> CTEExprAccept(n)
      [] n.kind = "SystemFlushExpr" -> SystemFlushExprAccept(n)
      [] n.kind = "SampleRatioExpr" -> SampleRatioExprAccept(n)

\* failure values: the nil error, the failure a hook returns at a node, and
\* the run-time panic of a call through an absent child
NoErr == [kind |-> "nil", at |-> <<>>]

NilDeref == [kind |-> "panic", at |-> <<>>]

HookErr(n, path) == [kind |-> n.kind, at |-> path]

Event(t, n, path) == [t |-> t, kind |-> n.kind, at |-> path]

\* the visitor: the set of variants whose Visit hook returns a failure
VisitHook(v, n, path) == IF n.kind \in v THEN HookErr(n, path) ELSE NoErr

RECURSIVE Accept(_, _, _), AcceptKids(_, _, _, _)

\* AcceptKids with the children's failures dropped:  _ = child.Accept(visitor)
AcceptKidsDropErr(kids, i, path, v) ==
    IF i > Len(kids) THEN [ev |-> <<>>, err |-> NoErr]
    ELSE LET r == Accept(kids[i].node, path \o kids[i].at, v)
             rest == AcceptKids(kids, i + 1, path, v)
         IN [ev |-> r.ev \o rest.ev, err |-> rest.err]

\* the chain of  if err := child.Accept(visitor); err != nil { return err }
AcceptKids(kids, i, path, v) ==
    IF i > Len(kids) THEN [ev |-> <<>>, err |-> NoErr]
    ELSE LET r == Accept(kids[i].node, path \o kids[i].at, v)
         IN IF r.err # NoErr THEN r
            ELSE LET rest == AcceptKids(kids, i + 1, path, v)
                 IN [ev |-> r.ev \o rest.ev, err |-> rest.err]

\* Accept with leave called after the hook instead of deferred
AcceptNoDefer(n, path, v) ==
    IF n = Nil THEN [ev |-> <<>>, err |-> NilDeref]
    ELSE LET plan == AcceptPlan(n)
             kids == AcceptKids(plan.kids, 1, path, v)
             hooked == kids.err = NoErr /\ plan.hook
         IN [ev |-> <<Event("enter", n, path)>> \o kids.ev
                    \o (IF hooked THEN <<Event("visit", n, path)>> ELSE <<>>)
                    \o (IF kids.err = NoErr THEN <<Event("leave", n, path)>> ELSE <<>>),
             err |-> IF hooked THEN VisitHook(v, n, path) ELSE kids.err]

Accept(n, path, v) ==
    IF n = Nil THEN [ev |-> <<>>, err |-> NilDeref]
    ELSE LET plan == AcceptPlan(n)
             kids == AcceptKids(plan.kids, 1, path, v)
             hooked == kids.err = NoErr /\ plan.hook
         IN [ev |-> <<Event("enter", n, path)>> \o kids.ev
                    \o (IF hooked THEN <<Event("visit", n, path)>> ELSE <<>>)
                    \o <<Event("leave", n, path)>>,
             err |-> IF hooked THEN VisitHook(v, n, path) ELSE kids.err]

\* ----------------------------------------------------------- String(level)
\* The text is a string; Panic stands for a call that does not return
\* because it dereferences an absent child, and absorbs what is written
\* around it.
Panic == "<panic: nil pointer dereference>"

a ++ b == IF a = Panic \/ b = Panic THEN Panic ELSE a \o b

RECURSIVE Cat(_)
Cat(ss) == IF ss = <<>> THEN "" ELSE Head(ss) ++ Cat(Tail(ss))

RECURSIVE Indent(_)
Indent(n) == IF n <= 0 THEN "" ELSE "  " \o Indent(n - 1)

NewLine(lvl) == "\n" \o Indent(lvl)

opTypeCast == "::"

RECURSIVE String(_, _)

TernaryExprString(t, lvl) ==
    String(t.Condition, lvl) ++ " ? " ++ String(t.TrueExpr, lvl) ++ " : "
    ++ String(t.FalseExpr, lvl)

BinaryExprString(p, lvl) ==
    String(p.LeftExpr, lvl)
    ++ (IF p.Operation # opTypeCast THEN " " ELSE "")
    ++ (IF p.HasNot THEN "NOT " ELSE IF p.HasGlobal THEN "GLOBAL " ELSE "")
    ++ p.Operation
    ++ (IF p.Operation # opTypeCast THEN " " ELSE "")
    ++ String(p.RightExpr, lvl)

JoinTableExprString(j, lvl) ==
    String(j.Table, lvl)
    ++ (IF j.SampleRatio # Nil THEN " " ++ String(j.SampleRatio, lvl) ELSE "")
    ++ (IF j.HasFinal THEN " FINAL" ELSE "")

AlterTableString(a, lvl) ==
    "ALTER TABLE " ++ String(a.TableIdentifier, lvl)
    ++ (IF a.OnCluster # Nil THEN NewLine(lvl) ++ String(a.OnCluster, lvl) ELSE "")
    ++ Cat([i \in 1..Len(a.AlterExprs) |->
              NewLine(lvl) ++ String(a.AlterExprs[i], lvl)
              ++ (IF i # Len(a.AlterExprs) THEN "," ELSE "")])

AlterTableDetachPartitionString(a, lvl) ==
    "DETACH " ++ String(a.Partition, lvl)
    ++ (IF a.Settings # Nil THEN " " ++ String(a.Settings, lvl) ELSE "")

AlterTableAddColumnString(a, lvl) ==
    "ADD COLUMN " ++ String(a.Column, lvl)
    ++ (IF a.IfNotExists THEN "IF NOT EXISTS " ELSE "")
    ++ (IF a.After # Nil THEN " AFTER " ++ String(a.After, lvl) ELSE "")

AlterTableDropColumnString(a, lvl) ==
    "DROP COLUMN " ++ (IF a.IfExists THEN "IF EXISTS " ELSE "")
    ++ String(a.ColumnName, lvl)

AlterTableDropIndexString(a, lvl) ==
    "DROP INDEX " ++ String(a.IndexName, lvl)
    ++ (IF a.IfExists THEN " IF EXISTS" ELSE "")

AlterTableClearColumnString(a, lvl) ==
    "CLEAR COLUMN " ++ (IF a.IfExists THEN "IF EXISTS " ELSE "")
    ++ String(a.ColumnName, lvl)
    ++ (IF a.PartitionExpr # Nil
        THEN NewLine(lvl) ++ "IN " ++ String(a.PartitionExpr, lvl) ELSE "")

AlterTableRenameColumnString(a, lvl) ==
    "RENAME COLUMN " ++ (IF a.IfExists THEN "IF EXISTS " ELSE "")
    ++ String(a.OldColumnName, lvl) ++ " TO " ++ String(a.NewColumnName, lvl)

\* the back-tick character, which a TLA+ string cannot hold, is written ^
BackTick == "^"

\* Ident.String with double-quoted names written in back-ticks
IdentStringOneQuote(i, lvl) ==
    IF i.QuoteType = "BackTicks" THEN BackTick \o i.Name \o BackTick
    ELSE IF i.QuoteType = "DoubleQuote" THEN BackTick \o i.Name \o BackTick
    ELSE i.Name

IdentString(i, lvl) ==
    IF i.QuoteType = "BackTicks" THEN BackTick \o i.Name \o BackTick
    ELSE IF i.QuoteType = "DoubleQuote" THEN "\"" \o i.Name \o "\""
    ELSE i.Name

UUIDString(u, lvl) == "UUID " ++ String(u.Value, lvl)

CreateTableString(c, lvl) ==
    "CREATE" ++ (IF c.HasTemporary THEN " TEMPORARY" ELSE "") ++ " TABLE "
    ++ (IF c.IfNotExists THEN "IF NOT EXISTS " ELSE "")
    ++ String(c.Name, lvl)
    ++ (IF c.UUID # Nil THEN NewLine(lvl) ++ String(c.UUID, lvl) ELSE "")
    ++ (IF c.OnCluster # Nil THEN NewLine(lvl) ++ String(c.OnCluster, lvl) ELSE "")
    ++ (IF c.TableSchema # Nil THEN NewLine(lvl) ++ String(c.TableSchema, lvl) ELSE "")
    ++ (IF c.Engine # Nil THEN String(c.Engine, lvl) ELSE "")
    ++ (IF c.SubQuery # Nil THEN String(c.SubQuery, lvl) ELSE "")

CreateMaterializedViewString(c, lvl) ==
    "CREATE MATERIALIZED VIEW "
    ++ (IF c.IfNotExists THEN "IF NOT EXISTS " ELSE "")
    ++ String(c.Name, lvl)
    ++ (IF c.OnCluster # Nil THEN NewLine(lvl) ++ String(c.OnCluster, lvl) ELSE "")
    ++ (IF c.Engine # Nil THEN String(c.Engine, lvl) ELSE "")
    ++ (IF c.Destination # Nil
        THEN NewLine(lvl) ++ String(c.Destination, lvl)
             ++ (IF c.Destination.TableSchema # Nil
                 THEN NewLine(lvl) ++ String(c.Destination.TableSchema, lvl + 1)
                 ELSE "")
        ELSE "")
    ++ (IF c.Populate THEN " POPULATE " ELSE "")
    ++ (IF c.SubQuery # Nil THEN String(c.SubQuery, lvl) ELSE "")

DestinationExprString(d, lvl) == "TO " ++ String(d.TableIdentifier, lvl)

NestedIdentifierString(n, lvl) ==
    IF n.DotIdent # Nil THEN String(n.Ident, 0) ++ "." ++ String(n.DotIdent, 0)
    ELSE String(n.Ident, 0)

TableIdentifierString(t, lvl) ==
    IF t.Database # Nil THEN String(t.Database, 0) ++ "." ++ String(t.Table, 0)
    ELSE String(t.Table, 0)

ColumnIdentifierString(c, lvl) ==
    IF c.Database # Nil
    THEN String(c.Database, 0) ++ "." ++ String(c.Table, 0) ++ "." ++ String(c.Column, 0)
    ELSE IF c.Table # Nil THEN String(c.Table, 0) ++ "." ++ String(c.Column, 0)
    ELSE String(c.Column, 0)

TableSchemaExprString(t, lvl) ==
    (IF Len(t.Columns) > 0
     THEN "(" ++ Cat([i \in 1..Len(t.Columns) |->
                        (IF i > 1 THEN "," ELSE "") ++ NewLine(lvl + 1)
                        ++ String(t.Columns[i], lvl)])
          ++ NewLine(lvl - 1) ++ ")"
     ELSE "")
    ++ (IF t.AliasTable # Nil THEN " AS " ++ String(t.AliasTable, lvl) ELSE "")
    ++ (IF t.TableFunction # Nil THEN " " ++ String(t.TableFunction, lvl) ELSE "")

OnClusterExprString(o, lvl) == "ON CLUSTER " ++ String(o.Expr, lvl + 1)

PartitionExprString(p, lvl) ==
    "PARTITION "
    ++ (IF p.ID # Nil THEN String(p.ID, lvl)
        ELSE IF p.All THEN "ALL"
        ELSE String(p.Expr, lvl))

SettingsExprString(s, lvl) == String(s.Name, lvl) ++ "=" ++ String(s.Expr, lvl)

SettingsExprListString(s, lvl) ==
    "SETTINGS "
    ++ Cat([i \in 1..Len(s.Items) |->
              (IF i > 1 THEN ", " ELSE "") ++ String(s.Items[i], lvl)])

ColumnString(c, lvl) ==
    String(c.Name, lvl)
    ++ (IF c.Type # Nil THEN " " ++ String(c.Type, lvl) ELSE "")
    ++ (IF c.NotNull # Nil THEN " NOT NULL" ELSE IF c.Nullable # Nil THEN " NULL" ELSE "")
    ++ (IF c.Property # Nil THEN " " ++ String(c.Property, lvl) ELSE "")
    ++ (IF c.Codec # Nil THEN " " ++ String(c.Codec, lvl) ELSE "")
    ++ (IF c.TTL # Nil THEN " " ++ String(c.TTL, lvl) ELSE "")
    ++ (IF c.Comment # Nil THEN " COMMENT " ++ String(c.Comment, lvl) ELSE "")

ScalarTypeExprString(s, lvl) == String(s.Name, lvl + 1)

NumberLiteralString(n, lvl) == n.Literal

StringLiteralString(s, lvl) == "'" \o s.Literal \o "'"

RatioExprString(r, lvl) ==
    String(r.Numerator, 0)
    ++ (IF r.Denominator # Nil THEN "/" ++ String(r.Denominator, 0) ELSE "")

ColumnExprListString(c, lvl) ==
    (IF c.HasDistinct THEN "DISTINCT " ELSE "")
    ++ Cat([i \in 1..Len(c.Items) |->
              String(c.Items[i], lvl) ++ (IF i # Len(c.Items) THEN ", " ELSE "")])

WhenExprString(w, lvl) ==
    "WHEN " ++ NewLine(lvl + 1) ++ String(w.When, lvl) ++ NewLine(lvl + 1) ++ " THEN "
    ++ String(w.Then, lvl)
    ++ (IF w.Else # Nil THEN NewLine(lvl + 1) ++ " ELSE " ++ String(w.Else, lvl) ELSE "")

CaseExprString(c, lvl) ==
    "CASE " ++ NewLine(lvl) ++ String(c.Expr, lvl)
    ++ Cat([i \in 1..Len(c.Whens) |-> NewLine(lvl) ++ String(c.Whens[i], lvl)])
    ++ (IF c.Else # Nil THEN "ELSE " ++ NewLine(lvl) ++ String(c.Else, lvl) ELSE "")
    ++ NewLine(lvl) ++ "END"

WithExprString(w, lvl) ==
    "WITH "
    ++ Cat([i \in 1..Len(w.CTEs) |->
              (IF i > 1 THEN ", " ELSE "") ++ String(w.CTEs[i], lvl + 1)])

TopExprString(t, lvl) ==
    IF t.Number = Nil THEN Panic
    ELSE IF t.WithTies THEN "WITH TIES"
    ELSE "TOP " \o t.Number.Literal

CompressionCodecString(c, lvl) ==
    "CODEC(" ++ String(c.Name, lvl)
    ++ (IF c.Level # Nil THEN "(" ++ String(c.Level, lvl) ++ ")" ELSE "")
    ++ ")"

WindowFrameNumberString(f, lvl) == String(f.Number, lvl) ++ " " ++ f.Direction

WindowFrameUnboundedString(f, lvl) == f.Direction \o " UNBOUNDED"

WindowFrameCurrentRowString(f, lvl) == "CURRENT ROW"

WindowFrameExprString(f, lvl) == f.Type ++ " " ++ String(f.Extend, lvl)

WindowConditionExprString(w, lvl) ==
    "("
    ++ (IF w.PartitionBy # Nil THEN NewLine(lvl + 1) ++ String(w.PartitionBy, lvl) ELSE "")
    ++ (IF w.OrderBy # Nil THEN NewLine(lvl + 1) ++ String(w.OrderBy, lvl) ELSE "")
    ++ (IF w.Frame # Nil THEN NewLine(lvl + 1) ++ String(w.Frame, lvl) ELSE "")
    ++ ")"

WindowExprString(w, lvl) ==
    "WINDOW " ++ String(w.Name, lvl) ++ " " ++ String(w.WindowConditionExpr, lvl)

UnaryExprString(n, lvl) == "-" ++ String(n.Expr, lvl + 1)

CheckExprString(c, lvl) ==
    "CHECK TABLE " ++ String(c.Table, lvl) ++ NewLine(lvl)
    ++ (IF c.Partition # Nil THEN String(c.Partition, lvl) ELSE "")

RoleNameString(r, lvl) ==
    String(r.Name, lvl)
    ++ (IF r.Scope # Nil THEN "@" ++ String(r.Scope, lvl) ELSE "")
    ++ (IF r.OnCluster # Nil THEN " ON " ++ String(r.OnCluster, lvl) ELSE "")

PrivilegeExprString(p, lvl) ==
    Cat([i \in 1..Len(p.Keywords) |-> (IF i > 1 THEN " " ELSE "") \o p.Keywords[i]])
    ++ (IF p.Params # Nil THEN String(p.Params, lvl) ELSE "")

GrantPrivilegeExprString(g, lvl) ==
    "GRANT "
    ++ (IF g.OnCluster # Nil THEN NewLine(lvl) ++ String(g.OnCluster, lvl) ELSE "")
    ++ Cat([i \in 1..Len(g.Privileges) |->
              (IF i > 1 THEN ", " ELSE "") ++ String(g.Privileges[i], lvl)])
    ++ " ON " ++ String(g.On, lvl) ++ " TO "
    ++ Cat([i \in 1..Len(g.To) |-> (IF i > 1 THEN ", " ELSE "") ++ String(g.To[i], lvl)])
    ++ Cat([i \in 1..Len(g.WithOptions) |-> " WITH " \o g.WithOptions[i] \o " OPTION"])

TableExprString(t, lvl) ==
    String(t.Expr, lvl + 1)
    ++ (IF t.Alias # Nil THEN " " ++ String(t.Alias, lvl + 1) ELSE "")
    ++ (IF t.HasFinal THEN " FINAL" ELSE "")

JoinConstraintExprString(j, lvl) ==
    IF j.On # Nil THEN "ON " ++ String(j.On, lvl) ELSE "USING " ++ String(j.Using, lvl)

RECURSIVE StringsJoin(_, _)
StringsJoin(elems, sep) ==
    IF elems = <<>> THEN ""
    ELSE IF Len(elems) = 1 THEN elems[1]
    ELSE elems[1] \o sep \o StringsJoin(Tail(elems), sep)

RECURSIVE buildJoinString(_, _)

\* buildJoinString with the constraint written before the left child
buildJoinStringConstraintFirst(expr, lvl) ==
    IF expr.kind # "JoinExpr" THEN "," ++ String(expr, lvl)
    ELSE (IF Len(expr.Modifiers) = 0 THEN ","
          ELSE NewLine(lvl) ++ StringsJoin(expr.Modifiers, " ") ++ " ")
         ++ (IF expr.Constraints # Nil THEN " " ++ String(expr.Constraints, lvl) ELSE "")
         ++ String(expr.Left, lvl)
         ++ (IF expr.Right # Nil THEN buildJoinString(expr.Right, lvl) ELSE "")

buildJoinString(expr, lvl) ==
    IF expr.kind # "JoinExpr" THEN "," ++ String(expr, lvl)
    ELSE (IF Len(expr.Modifiers) = 0 THEN ","
          ELSE NewLine(lvl) ++ StringsJoin(expr.Modifiers, " ") ++ " ")
         ++ String(expr.Left, lvl)
         ++ (IF expr.Constraints # Nil THEN " " ++ String(expr.Constraints, lvl) ELSE "")
         ++ (IF expr.Right # Nil THEN buildJoinString(expr.Right, lvl) ELSE "")

JoinExprString(j, lvl) ==
    String(j.Left, lvl) ++ (IF j.Right # Nil THEN buildJoinString(j.Right, lvl) ELSE "")

FromExprString(f, lvl) ==
    LET isSubquery == /\ f.Expr.kind = "JoinTableExpr"
                      /\ f.Expr.Table # Nil
                      /\ f.Expr.Table.Expr.kind = "SelectQuery"
    IN "FROM" ++ (IF isSubquery THEN " (" ELSE "")
       ++ NewLine(lvl + 1) ++ String(f.Expr, lvl + 1)
       ++ (IF isSubquery THEN ")" ELSE "")

IsNullExprString(n, lvl) == String(n.Expr, lvl) ++ " IS NULL"

AliasExprString(a, lvl) ==
    (IF a.Expr.kind = "SelectQuery" THEN "(" ++ String(a.Expr, lvl) ++ ")"
     ELSE String(a.Expr, lvl))
    ++ " AS " ++ String(a.Alias, lvl)

WhereExprString(w, lvl) == "WHERE" ++ NewLine(lvl + 1) ++ String(w.Expr, lvl)

LimitExprString(l, lvl) ==
    "LIMIT " ++ String(l.Limit, lvl)
    ++ (IF l.Offset # Nil THEN " OFFSET " ++ String(l.Offset, lvl) ELSE "")

LimitByExprString(l, lvl) ==
    "LIMIT " ++ String(l.Limit, lvl)
    ++ (IF l.Limit # Nil THEN " OFFSET " ++ String(l.Limit, lvl) ELSE "")
    ++ (IF l.ByExpr # Nil THEN " BY " ++ String(l.ByExpr, lvl) ELSE "")

Clause(c, lvl) == IF c # Nil THEN NewLine(lvl) ++ String(c, lvl) ELSE ""

\* SelectQuery.String with the columns at the level of the SELECT keyword
SelectQueryStringFlatColumns(s, lvl) ==
    (IF s.With # Nil
     THEN "WITH" ++ Cat([i \in 1..Len(s.With.CTEs) |->
                           NewLine(lvl + 1) ++ String(s.With.CTEs[i], lvl)
                           ++ (IF i # Len(s.With.CTEs) THEN "," ELSE "")])
     ELSE "")
    ++ NewLine(lvl) ++ "SELECT "
    ++ (IF s.Top # Nil THEN NewLine(lvl + 1) ++ String(s.Top, lvl) ++ " " ELSE "")
    ++ (IF s.SelectColumns = Nil THEN Panic
        ELSE (IF s.SelectColumns.HasDistinct THEN "DISTINCT " ELSE "")
             ++ Cat([i \in 1..Len(s.SelectColumns.Items) |->
                       NewLine(lvl) ++ String(s.SelectColumns.Items[i], lvl)
                       ++ (IF i # Len(s.SelectColumns.Items) THEN "," ELSE "")]))
    ++ Clause(s.From, lvl) ++ Clause(s.ArrayJoin, lvl) ++ Clause(s.Window, lvl)
    ++ Clause(s.Prewhere, lvl) ++ Clause(s.Where, lvl) ++ Clause(s.GroupBy, lvl)
    ++ Clause(s.Having, lvl) ++ Clause(s.OrderBy, lvl) ++ Clause(s.LimitBy, lvl)
    ++ Clause(s.Limit, lvl) ++ Clause(s.Settings, lvl)
    ++ (IF s.UnionAll # Nil
        THEN NewLine(lvl) ++ " UNION ALL " ++ String(s.UnionAll, lvl)
        ELSE IF s.UnionDistinct # Nil
        THEN NewLine(lvl) ++ " UNION DISTINCT " ++ String(s.UnionDistinct, lvl)
        ELSE IF s.Except # Nil
        THEN NewLine(lvl) ++ " EXCEPT " ++ String(s.Except, lvl)
        ELSE "")

SelectQueryString(s, lvl) ==
    (IF s.With # Nil
     THEN "WITH" ++ Cat([i \in 1..Len(s.With.CTEs) |->
                           NewLine(lvl + 1) ++ String(s.With.CTEs[i], lvl)
                           ++ (IF i # Len(s.With.CTEs) THEN "," ELSE "")])
     ELSE "")
    ++ NewLine(lvl) ++ "SELECT "
    ++ (IF s.Top # Nil THEN NewLine(lvl + 1) ++ String(s.Top, lvl) ++ " " ELSE "")
    ++ (IF s.SelectColumns = Nil THEN Panic
        ELSE (IF s.SelectColumns.HasDistinct THEN "DISTINCT " ELSE "")
             ++ Cat([i \in 1..Len(s.SelectColumns.Items) |->
                       NewLine(lvl + 1) ++ String(s.SelectColumns.Items[i], lvl)
                       ++ (IF i # Len(s.SelectColumns.Items) THEN "," ELSE "")]))
    ++ Clause(s.From, lvl) ++ Clause(s.ArrayJoin, lvl) ++ Clause(s.Window, lvl)
    ++ Clause(s.Prewhere, lvl) ++ Clause(s.Where, lvl) ++ Clause(s.GroupBy, lvl)
    ++ Clause(s.Having, lvl) ++ Clause(s.OrderBy, lvl) ++ Clause(s.LimitBy, lvl)
    ++ Clause(s.Limit, lvl) ++ Clause(s.Settings, lvl)
    ++ (IF s.UnionAll # Nil
        THEN NewLine(lvl) ++ " UNION ALL " ++ String(s.UnionAll, lvl)
        ELSE IF s.UnionDistinct # Nil
        THEN NewLine(lvl) ++ " UNION DISTINCT " ++ String(s.UnionDistinct, lvl)
        ELSE IF s.Except # Nil
        THEN NewLine(lvl) ++ " EXCEPT " ++ String(s.Except, lvl)
        ELSE "")

SubQueryExprString(s, lvl) ==
    " AS (" ++ String(s.Select, lvl + 1) ++ NewLine(lvl) ++ ")"

ExtractExprString(e, lvl) ==
    "EXTRACT(" ++ String(e.Interval, lvl) ++ " FROM " ++ String(e.FromExpr, lvl) ++ ")"

CTEExprString(c, lvl) ==
    String(c.Expr, lvl) ++ " AS "
    ++ (IF c.Alias.kind = "SelectQuery" THEN "(" ++ String(c.Alias, lvl + 2) ++ ")"
        ELSE String(c.Alias, lvl))

SystemFlushExprString(s, lvl) ==
    "FLUSH " ++ (IF s.Logs THEN "LOGS" ELSE String(s.Distributed, lvl))

SampleRatioExprString(s, lvl) ==
    "SAMPLE " ++ String(s.Ratio, lvl)
    ++ (IF s.Offset # Nil THEN " OFFSET " ++ String(s.Offset, lvl) ELSE "")

\* dynamic dispatch of String on the variant of the node; a call through an
\* absent child panics
String(n, lvl) ==
    CASE n = Nil -> Panic
      [] n.kind = "Ident" -> IdentString(n, lvl)
      [] n.kind = "NumberLiteral" -> NumberLiteralString(n, lvl)
      [] n.kind = "StringLiteral" -> StringLiteralString(n, lvl)
      [] n.kind = "TernaryExpr" -> TernaryExprString(n, lvl)
      [] n.kind = "BinaryExpr" -> BinaryExprString(n, lvl)
      [] n.kind = "JoinTableExpr" -> JoinTableExprString(n, lvl)
      [] n.kind = "AlterTable" -> AlterTableString(n, lvl)
      [] n.kind = "AlterTableDetachPartition" -> AlterTableDetachPartitionString(n, lvl)
      [] n.kind = "AlterTableAddColumn" -> AlterTableAddColumnString(n, lvl)
      [] n.kind = "AlterTableDropColumn" -> AlterTableDropColumnString(n, lvl)
      [] n.kind = "AlterTableDropIndex" -> AlterTableDropIndexString(n, lvl)
      [] n.kind = "AlterTableClearColumn" -> AlterTableClearColumnString(n, lvl)
      [] n.kind = "AlterTableRenameColumn" -> AlterTableRenameColumnString(n, lvl)
      [] n.kind = "UUID" -> UUIDString(n, lvl)
      [] n.kind = "CreateTable" -> CreateTableString(n, lvl)
      [] n.kind = "CreateMaterializedView" -> CreateMaterializedViewString(n, lvl)
      [] n.kind = "DestinationExpr" -> DestinationExprString(n, lvl)
      [] n.kind = "NestedIdentifier" -> NestedIdentifierString(n, lvl)
      [] n.kind = "TableIdentifier" -> TableIdentifierString(n, lvl)
      [] n.kind = "ColumnIdentifier" -> ColumnIdentifierString(n, lvl)
      [] n.kind = "TableSchemaExpr" -> TableSchemaExprString(n, lvl)
      [] n.kind = "OnClusterExpr" -> OnClusterExprString(n, lvl)
      [] n.kind = "PartitionExpr" -> PartitionExprString(n, lvl)
      [] n.kind = "SettingsExpr" -> SettingsExprString(n, lvl)
      [] n.kind = "SettingsExprList" -> SettingsExprListString(n, lvl)
      [] n.kind = "Column" -> ColumnString(n, lvl)
      [] n.kind = "ScalarTypeExpr" -> ScalarTypeExprString(n, lvl)
      [] n.kind = "RatioExpr" -> RatioExprString(n, lvl)
      [] n.kind = "ColumnExprList" -> ColumnExprListString(n, lvl)
      [] n.kind = "WhenExpr" -> WhenExprString(n, lvl)
      [] n.kind = "CaseExpr" -> CaseExprString(n, lvl)
      [] n.kind = "WithExpr" -> WithExprString(n, lvl)
      [] n.kind = "TopExpr" -> TopExprString(n, lvl)
      [] n.kind = "CompressionCodec" -> CompressionCodecString(n, lvl)
      [] n.kind = "WindowFrameNumber" -> WindowFrameNumberString(n, lvl)
      [] n.kind = "WindowFrameUnbounded" -> WindowFrameUnboundedString(n, lvl)
      [] n.kind = "WindowFrameCurrentRow" -> WindowFrameCurrentRowString(n, lvl)
      [] n.kind = "WindowFrameExpr" -> WindowFrameExprString(n, lvl)
      [] n.kind = "WindowConditionExpr" -> WindowConditionExprString(n, lvl)
      [] n.kind = "WindowExpr" -> WindowExprString(n, lvl)
      [] n.kind = "UnaryExpr" -> UnaryExprString(n, lvl)
      [] n.kind = "CheckExpr" -> CheckExprString(n, lvl)
      [] n.kind = "RoleName" -> RoleNameString(n, lvl)
      [] n.kind = "PrivilegeExpr" -> PrivilegeExprString(n, lvl)
      [] n.kind = "GrantPrivilegeExpr" -> GrantPrivilegeExprString(n, lvl)
      [] n.kind = "TableExpr" -> TableExprString(n, lvl)
      [] n.kind = "JoinExpr" -> JoinExprString(n, lvl)
      [] n.kind = "JoinConstraintExpr" -> JoinConstraintExprString(n, lvl)
      [] n.kind = "FromExpr" -> FromExprString(n, lvl)
      [] n.kind = "IsNullExpr" -> IsNullExprString(n, lvl)
      [] n.kind = "AliasExpr" -> AliasExprString(n, lvl)
      [] n.kind = "WhereExpr" -> WhereExprString(n, lvl)
      [] n.kind = "LimitExpr" -> LimitExprString(n, lvl)
      [] n.kind = "LimitByExpr" -> LimitByExprString(n, lvl)
      [] n.kind = "SelectQuery" -> SelectQueryString(n, lvl)
      [] n.kind = "SubQueryExpr" -> SubQueryExprString(n, lvl)
      [] n.kind = "ExtractExpr" -> ExtractExprString(n, lvl)
      [] n.kind = "CTEExpr" -> CTEExprString(n, lvl)
      [] n.kind = "SystemFlushExpr" -> SystemFlushExprString(n, lvl)
      [] n.kind = "SampleRatioExpr" -> SampleRatioExprString(n, lvl)

\* ------------------------------------------------------------ Pos() / End()
\* the result of Pos() or End() on an absent child: the call panics
NilPos == 0 - 1

RECURSIVE Pos(_), End(_)

IdentPos(i) == i.NamePos

IdentEnd(i) == i.NameEnd

NumberLiteralPos(n) == n.NumPos

NumberLiteralEnd(n) == n.NumEnd

StringLiteralPos(s) == s.LiteralPos

StringLiteralEnd(s) == s.LiteralEnd

BinaryExprPos(p) == Pos(p.LeftExpr)

BinaryExprEnd(p) == End(p.RightExpr)

IsNullExprPos(n) == n.IsPos

IsNullExprEnd(n) == End(n.Expr)

AliasExprPos(a) == a.AliasPos

AliasExprEnd(a) == End(a.Alias)

TableIdentifierPos(t) == IF t.Database # Nil THEN Pos(t.Database) ELSE Pos(t.Table)

TableIdentifierEnd(t) == End(t.Table)

TableExprPos(t) == t.TablePos

TableExprEnd(t) == t.TableEnd

JoinTableExprPos(j) == Pos(j.Table)

JoinTableExprEnd(j) == j.StatementEnd

JoinExprPos(j) == j.JoinPos

JoinExprEnd(j) == End(j.Left)

JoinConstraintExprPos(j) == j.ConstraintPos

JoinConstraintExprEnd(j) == IF j.On # Nil THEN End(j.On) ELSE End(j.Using)

ColumnExprListPos(c) == c.ListPos

ColumnExprListEnd(c) == c.ListEnd

CTEExprPos(c) == c.CTEPos

CTEExprEnd(c) == End(c.Expr)

SelectQueryPos(s) == s.SelectPos

SelectQueryEnd(s) == s.StatementEnd

PartitionExprPos(p) == p.PartitionPos

PartitionExprEnd(p) == IF p.ID # Nil THEN p.ID.LiteralEnd ELSE End(p.Expr)

SettingsExprPos(s) == s.SettingsPos

SettingsExprEnd(s) == End(s.Expr)

SettingsExprListPos(s) == s.SettingsPos

SettingsExprListEnd(s) == s.ListEnd

AlterTableDetachPartitionPos(a) == a.DetachPos

AlterTableDetachPartitionEnd(a) == End(a.Partition)

CheckExprPos(c) == c.CheckPos

CheckExprEnd(c) == End(c.Partition)

\* dynamic dispatch of Pos and End on the variant of the node
Pos(n) ==
    CASE n = Nil -> NilPos
      [] n.kind = "Ident" -> IdentPos(n)
      [] n.kind = "NumberLiteral" -> NumberLiteralPos(n)
      [] n.kind = "StringLiteral" -> StringLiteralPos(n)
      [] n.kind = "BinaryExpr" -> BinaryExprPos(n)
      [] n.kind = "IsNullExpr" -> IsNullExprPos(n)
      [] n.kind = "AliasExpr" -> AliasExprPos(n)
      [] n.kind = "TableIdentifier" -> TableIdentifierPos(n)
      [] n.kind = "TableExpr" -> TableExprPos(n)
      [] n.kind = "JoinTableExpr" -> JoinTableExprPos(n)
      [] n.kind = "JoinExpr" -> JoinExprPos(n)
      [] n.kind = "JoinConstraintExpr" -> JoinConstraintExprPos(n)
      [] n.kind = "ColumnExprList" -> ColumnExprListPos(n)
      [] n.kind = "CTEExpr" -> CTEExprPos(n)
      [] n.kind = "SelectQuery" -> SelectQueryPos(n)
      [] n.kind = "PartitionExpr" -> PartitionExprPos(n)
      [] n.kind = "SettingsExpr" -> SettingsExprPos(n)
      [] n.kind = "SettingsExprList" -> SettingsExprListPos(n)
      [] n.kind = "AlterTableDetachPartition" -> AlterTableDetachPartitionPos(n)
      [] n.kind = "CheckExpr" -> CheckExprPos(n)

End(n) ==
    CASE n = Nil -> NilPos
      [] n.kind = "Ident" -> IdentEnd(n)
      [] n.kind = "NumberLiteral" -> NumberLiteralEnd(n)
      [] n.kind = "StringLiteral" -> StringLiteralEnd(n)
      [] n.kind = "BinaryExpr" -> BinaryExprEnd(n)
      [] n.kind = "IsNullExpr" -> IsNullExprEnd(n)
      [] n.kind = "AliasExpr" -> AliasExprEnd(n)
      [] n.kind = "TableIdentifier" -> TableIdentifierEnd(n)
      [] n.kind = "TableExpr" -> TableExprEnd(n)
      [] n.kind = "JoinTableExpr" -> JoinTableExprEnd(n)
      [] n.kind = "JoinExpr" -> JoinExprEnd(n)
      [] n.kind = "JoinConstraintExpr" -> JoinConstraintExprEnd(n)
      [] n.kind = "ColumnExprList" -> ColumnExprListEnd(n)
      [] n.kind = "CTEExpr" -> CTEExprEnd(n)
      [] n.kind = "SelectQuery" -> SelectQueryEnd(n)
      [] n.kind = "PartitionExpr" -> PartitionExprEnd(n)
      [] n.kind = "SettingsExpr" -> SettingsExprEnd(n)
      [] n.kind = "SettingsExprList" -> SettingsExprListEnd(n)
      [] n.kind = "AlterTableDetachPartition" -> AlterTableDetachPartitionEnd(n)
      [] n.kind = "CheckExpr" -> CheckExprEnd(n)

\* ------------------------------------------------------- lexer and parser
\* The lexer and the ALTER TABLE production of the parser, for the column
\* operations ADD COLUMN and DROP COLUMN, as sections 4.1 and 4.4 of the
\* specification describe them.  Numbers are decimal digits only.
LowerAlpha ==
    <<"a", "b", "c", "d", "e", "f", "g", "h", "i", "j", "k", "l", "m",
      "n", "o", "p", "q", "r", "s", "t", "u", "v", "w", "x", "y", "z">>

UpperAlpha ==
    <<"A", "B", "C", "D", "E", "F", "G", "H", "I", "J", "K", "L", "M",
      "N", "O", "P", "Q", "R", "S", "T", "U", "V", "W", "X", "Y", "Z">>

Digits == {"0", "1", "2", "3", "4", "5", "6", "7", "8", "9"}

IdentStart == {LowerAlpha[i] : i \in 1..26} \cup {UpperAlpha[i] : i \in 1..26} \cup {"_"}

Spaces == {" ", "\n", "\t", "\r"}

Puncts == {",", ";", ".", "(", ")", "="}

\* the reserved words the productions below look at
Keywords ==
    {"ALTER", "TABLE", "ON", "CLUSTER", "ADD", "DROP", "COLUMN", "IF", "NOT", "EXISTS",
     "AFTER"}

CharAt(t, i) == SubSeq(t, i, i)

From(t, i) == SubSeq(t, i, Len(t))

RECURSIVE ToUpper(_)
ToUpper(w) ==
    IF Len(w) = 0 THEN ""
    ELSE LET c == CharAt(w, 1)
             at == {i \in 1..26 : LowerAlpha[i] = c}
         IN (IF at = {} THEN c ELSE UpperAlpha[CHOOSE i \in at : TRUE]) \o ToUpper(From(w, 2))

\* the length of the longest prefix of t made of characters of S
RECURSIVE Span(_, _)
Span(t, S) == IF Len(t) = 0 \/ CharAt(t, 1) \notin S THEN 0 ELSE 1 + Span(From(t, 2), S)

\* the offset of the first character c of t after its first character, or 0
Closing(t, c) ==
    LET hits == {i \in 2..Len(t) : CharAt(t, i) = c}
    IN IF hits = {} THEN 0 ELSE CHOOSE i \in hits : \A j \in hits : i <= j

Token(k, lit, q) == [k |-> k, s |-> lit, q |-> q]

IllegalToken == Token("illegal", "", "Unquoted")

\* a delimited lexeme: quoted identifier or string literal
Delimited(t, c, k, q) ==
    LET e == Closing(t, c)
    IN IF e = 0 THEN [tok |-> IllegalToken, len |-> Len(t)]
       ELSE [tok |-> Token(k, SubSeq(t, 2, e - 1), q), len |-> e]

\* the first lexeme of a text that starts with no white space
NextToken(t) ==
    LET c == CharAt(t, 1)
    IN CASE c \in IdentStart ->
              LET n == Span(t, IdentStart \cup Digits)
                  w == SubSeq(t, 1, n)
              IN [tok |-> Token(IF ToUpper(w) \in Keywords THEN "keyword" ELSE "ident",
                                w, "Unquoted"),
                  len |-> n]
         [] c \in Digits ->
              LET n == Span(t, Digits)
              IN [tok |-> Token("number", SubSeq(t, 1, n), "Unquoted"), len |-> n]
         [] c = BackTick -> Delimited(t, BackTick, "ident", "BackTicks")
         [] c = "\"" -> Delimited(t, "\"", "ident", "DoubleQuote")
         [] c = "'" -> Delimited(t, "'", "string", "Unquoted")
         [] c \in Puncts -> [tok |-> Token("punct", c, "Unquoted"), len |-> 1]
         [] OTHER -> [tok |-> IllegalToken, len |-> Len(t)]

\* the tokens of a text, white space stripped
RECURSIVE Lex(_)
Lex(t) ==
    IF Len(t) = 0 THEN <<>>
    ELSE IF CharAt(t, 1) \in Spaces THEN Lex(From(t, 2))
    ELSE LET n == NextToken(t) IN <<n.tok>> \o Lex(From(t, n.len + 1))

\* what a parse routine returns: a node and the index of the next token, or
\* the failure of the first unexpected token
Fail == [ok |-> FALSE]

Ok(node, next) == [ok |-> TRUE, node |-> node, next |-> next]

IsKind(ts, i, k) == i <= Len(ts) /\ ts[i].k = k

\* keywords match case-insensitively
IsKeyword(ts, i, w) == IsKind(ts, i, "keyword") /\ ToUpper(ts[i].s) = w

IsKeywords(ts, i, ws) == \A j \in 1..Len(ws) : IsKeyword(ts, i + j - 1, ws[j])

IsPunct(ts, i, c) == IsKind(ts, i, "punct") /\ ts[i].s = c

\* one parse routine per non-terminal; the routines reach one another by the
\* name of the non-terminal
RECURSIVE parse(_, _, _)

parseIdent(ts, i) ==
    IF IsKind(ts, i, "ident") THEN Ok(Ident(ts[i].s, ts[i].q), i + 1) ELSE Fail

\* ident [ . ident ]
parseDotted(ts, i) ==
    LET a == parse("Ident", ts, i)
    IN IF ~a.ok THEN Fail
       ELSE IF ~IsPunct(ts, a.next, ".") THEN Ok(<<a.node>>, a.next)
       ELSE LET b == parse("Ident", ts, a.next + 1)
            IN IF b.ok THEN Ok(<<a.node, b.node>>, b.next) ELSE Fail

parseNestedIdentifier(ts, i) ==
    LET d == parse("Dotted", ts, i)
    IN IF ~d.ok THEN Fail
       ELSE Ok(NestedIdentifier(d.node[1], IF Len(d.node) = 2 THEN d.node[2] ELSE Nil), d.next)

parseTableIdentifier(ts, i) ==
    LET d == parse("Dotted", ts, i)
    IN IF ~d.ok THEN Fail
       ELSE Ok(IF Len(d.node) = 2 THEN TableIdentifier(d.node[1], d.node[2])
               ELSE TableIdentifier(Nil, d.node[1]), d.next)

\* name type
parseColumn(ts, i) ==
    LET n == parse("NestedIdentifier", ts, i)
    IN IF ~n.ok THEN Fail
       ELSE LET t == parse("Ident", ts, n.next)
            IN IF t.ok THEN Ok(Column(n.node, ScalarTypeExpr(t.node)), t.next) ELSE Fail

\* ADD COLUMN [IF NOT EXISTS] column [AFTER name]
parseAlterTableAddColumn(ts, i) ==
    LET flag == IsKeywords(ts, i + 2, <<"IF", "NOT", "EXISTS">>)
        c == parse("Column", ts, IF flag THEN i + 5 ELSE i + 2)
    IN IF ~c.ok THEN Fail
       ELSE IF ~IsKeyword(ts, c.next, "AFTER") THEN Ok(AlterTableAddColumn(c.node, flag, Nil), c.next)
       ELSE LET a == parse("NestedIdentifier", ts, c.next + 1)
            IN IF a.ok THEN Ok(AlterTableAddColumn(c.node, flag, a.node), a.next) ELSE Fail

\* DROP COLUMN [IF EXISTS] name
parseAlterTableDropColumn(ts, i) ==
    LET flag == IsKeywords(ts, i + 2, <<"IF", "EXISTS">>)
        n == parse("NestedIdentifier", ts, IF flag THEN i + 4 ELSE i + 2)
    IN IF n.ok THEN Ok(AlterTableDropColumn(n.node, flag), n.next) ELSE Fail

parseAlterTableExpr(ts, i) ==
    CASE IsKeywords(ts, i, <<"ADD", "COLUMN">>) -> parse("AlterTableAddColumn", ts, i)
      [] IsKeywords(ts, i, <<"DROP", "COLUMN">>) -> parse("AlterTableDropColumn", ts, i)
      [] OTHER -> Fail

\* a comma-separated list of alter operations
parseAlterTableExprs(ts, i) ==
    LET e == parse("AlterTableExpr", ts, i)
    IN IF ~e.ok THEN Fail
       ELSE IF ~IsPunct(ts, e.next, ",") THEN Ok(<<e.node>>, e.next)
       ELSE LET rest == parse("AlterTableExprs", ts, e.next + 1)
            IN IF rest.ok THEN Ok(<<e.node>> \o rest.node, rest.next) ELSE Fail

\* [ON CLUSTER name]
parseOnCluster(ts, i) ==
    IF ~IsKeywords(ts, i, <<"ON", "CLUSTER">>) THEN Ok(Nil, i)
    ELSE LET n == parse("Ident", ts, i + 2)
         IN IF n.ok THEN Ok(OnClusterExpr(n.node), n.next) ELSE Fail

\* ALTER TABLE table [ON CLUSTER name] operation {, operation}
parseAlterTable(ts, i) ==
    IF ~IsKeywords(ts, i, <<"ALTER", "TABLE">>) THEN Fail
    ELSE LET t == parse("TableIdentifier", ts, i + 2)
         IN IF ~t.ok THEN Fail
            ELSE LET c == parse("OnCluster", ts, t.next)
                 IN IF ~c.ok THEN Fail
                    ELSE LET es == parse("AlterTableExprs", ts, c.next)
                         IN IF es.ok THEN Ok(AlterTable(t.node, c.node, es.node), es.next)
                            ELSE Fail

parse(rule, ts, i) ==
    CASE rule = "Ident" -> parseIdent(ts, i)
      [] rule = "Dotted" -> parseDotted(ts, i)
      [] rule = "NestedIdentifier" -> parseNestedIdentifier(ts, i)
      [] rule = "TableIdentifier" -> parseTableIdentifier(ts, i)
      [] rule = "Column" -> parseColumn(ts, i)
      [] rule = "AlterTableAddColumn" -> parseAlterTableAddColumn(ts, i)
      [] rule = "AlterTableDropColumn" -> parseAlterTableDropColumn(ts, i)
      [] rule = "AlterTableExpr" -> parseAlterTableExpr(ts, i)
      [] rule = "AlterTableExprs" -> parseAlterTableExprs(ts, i)
      [] rule = "OnCluster" -> parseOnCluster(ts, i)
      [] rule = "AlterTable" -> parseAlterTable(ts, i)

ParseError == [kind |-> "error"]

\* one statement, up to the end of the text: the tree, or the error
Parse(t) ==
    LET ts == Lex(t)
        r == parse("AlterTable", ts, 1)
    IN IF r.ok /\ r.next = Len(ts) + 1 THEN r.node ELSE ParseError

\* ------------------------------------------------------ command line tool
\* statements separated by ";" up to the end of the text
RECURSIVE parseStatements(_, _)
parseStatements(ts, i) ==
    IF i > Len(ts) THEN Ok(<<>>, i)
    ELSE LET st == parse("AlterTable", ts, i)
         IN IF ~st.ok THEN Fail
            ELSE IF st.next > Len(ts) THEN Ok(<<st.node>>, st.next)
            ELSE IF ~IsPunct(ts, st.next, ";") THEN Fail
            ELSE LET rest == parseStatements(ts, st.next + 1)
                 IN IF rest.ok THEN Ok(<<st.node>> \o rest.node, rest.next) ELSE Fail

\* NewParser(text).ParseStatements(): the statements, or the error
ParseStatements(t) ==
    LET r == parseStatements(Lex(t), 1)
    IN IF r.ok THEN [err |-> "", stmts |-> r.node]
       ELSE [err |-> "unexpected token", stmts |-> <<>>]

help == "\nUsage: clickhouse-sql-parser [YOUR SQL STRING] -f [YOUR SQL FILE] -format\n"

HasPrefix(t, p) == Len(t) >= Len(p) /\ SubSeq(t, 1, Len(p)) = p

\* the values of the flags before flag.Parse
options == [format |-> FALSE, file |-> "", help |-> FALSE, status |-> "ok"]

TrueValues == {"1", "t", "T", "TRUE", "true", "True"}

FalseValues == {"0", "f", "F", "FALSE", "false", "False"}

\* a boolean flag, given as -name or -name=value
SetBool(o, field, hasValue, value) ==
    IF ~hasValue \/ value \in TrueValues THEN [o EXCEPT ![field] = TRUE]
    ELSE IF value \in FalseValues THEN [o EXCEPT ![field] = FALSE]
    ELSE [o EXCEPT !.status = "invalid boolean value"]

\* flag.Parse over os.Args[1:]: flags are read up to the first argument that
\* is not a flag, or up to "--"
RECURSIVE FlagParse(_, _)
FlagParse(args, o) ==
    IF o.status # "ok" \/ args = <<>> THEN o
    ELSE LET a == Head(args)
         IN IF Len(a) < 2 \/ CharAt(a, 1) # "-" THEN o
            ELSE LET minuses == IF CharAt(a, 2) = "-" THEN 2 ELSE 1
                     name == From(a, minuses + 1)
                     eq == Closing(name, "=")
                     hasValue == eq # 0
                     flagName == IF hasValue THEN SubSeq(name, 1, eq - 1) ELSE name
                     value == IF hasValue THEN From(name, eq + 1) ELSE ""
                 IN IF minuses = 2 /\ Len(a) = 2 THEN o
                    ELSE IF Len(name) = 0 \/ CharAt(name, 1) \in {"-", "="}
                    THEN [o EXCEPT !.status = "bad flag syntax"]
                    ELSE CASE flagName = "format" ->
                                FlagParse(Tail(args), SetBool(o, "format", hasValue, value))
                           [] flagName = "h" ->
                                FlagParse(Tail(args), SetBool(o, "help", hasValue, value))
                           [] flagName = "f" ->
                                IF hasValue
                                THEN FlagParse(Tail(args), [o EXCEPT !.file = value])
                                ELSE IF Len(args) > 1
                                THEN FlagParse(Tail(Tail(args)), [o EXCEPT !.file = args[2]])
                                ELSE [o EXCEPT !.status = "flag needs an argument"]
                           [] flagName = "help" -> [o EXCEPT !.status = "help requested"]
                           [] OTHER -> [o EXCEPT !.status = "flag provided but not defined"]

\* what a run of the tool leaves behind
Exit(out, err, code) == [stdout |-> out, stderr |-> err, code |-> code]

\* panic(message): the message on the error stream, exit status 2
GoPanic(message) == Exit(<<>>, "panic: " \o message, 2)

\* json.MarshalIndent of the statements; each object is cut down to the
\* variant of its statement
MarshalIndent(stmts) ==
    IF stmts = <<>> THEN "null"
    ELSE "[\n" \o StringsJoin([i \in 1..Len(stmts) |-> "  {\"" \o stmts[i].kind \o "\": ...}"],
                              ",\n") \o "\n]"

SqlOne == "ALTER TABLE t DROP COLUMN a"

SqlTwo == "ALTER TABLE t DROP COLUMN a; ALTER TABLE db.t DROP COLUMN IF EXISTS b"

SqlBad == "ALTER TABLE t DROP"

\* the files that exist, with their contents
Files == [p \in {"q.sql", "bad.sql"} |-> IF p = "q.sql" THEN SqlTwo ELSE SqlBad]

\* os.ReadFile
ReadFile(p) ==
    IF p \in DOMAIN Files THEN [err |-> "", bytes |-> Files[p]]
    ELSE [err |-> "open " \o p \o ": no such file or directory", bytes |-> ""]

\* main where a parse error is written out and the run goes on with the
\* statements it has
mainGoesOn(args) ==
    LET o == FlagParse(args, options)
    IN IF o.status = "help requested" THEN Exit(<<>>, "Usage", 0)
       ELSE IF o.status # "ok" THEN Exit(<<>>, o.status, 2)
       ELSE IF Len(args) + 1 < 2 \/ o.help THEN Exit(<<help>>, "", 0)
       ELSE LET read == ReadFile(o.file)
                last == args[Len(args)]
            IN IF o.file # "" /\ read.err # ""
               THEN GoPanic("read file error: " \o read.err)
               ELSE IF o.file = "" /\ HasPrefix(last, "-") THEN Exit(<<help>>, "", 0)
               ELSE LET inputBytes == IF o.file # "" THEN read.bytes ELSE last
                        r == ParseStatements(inputBytes)
                        err == IF r.err # "" THEN "parse statements error: " \o r.err ELSE ""
                    IN IF ~o.format
                       THEN Exit(<<MarshalIndent(r.stmts)>>, err, 0)
                       ELSE Exit([i \in 1..Len(r.stmts) |-> String(r.stmts[i], 0)], err, 0)

\* main with os.Args = <<program>> \o args
main(args) ==
    LET o == FlagParse(args, options)
    IN IF o.status = "help requested" THEN Exit(<<>>, "Usage", 0)
       ELSE IF o.status # "ok" THEN Exit(<<>>, o.status, 2)
       ELSE IF Len(args) + 1 < 2 \/ o.help THEN Exit(<<help>>, "", 0)
       ELSE LET read == ReadFile(o.file)
                last == args[Len(args)]
            IN IF o.file # "" /\ read.err # ""
               THEN GoPanic("read file error: " \o read.err)
               ELSE IF o.file = "" /\ HasPrefix(last, "-") THEN Exit(<<help>>, "", 0)
               ELSE LET inputBytes == IF o.file # "" THEN read.bytes ELSE last
                        r == ParseStatements(inputBytes)
                    IN IF r.err # ""
                       THEN GoPanic("parse statements error: " \o r.err)
                       ELSE IF ~o.format
                       THEN Exit(<<MarshalIndent(r.stmts)>>, "", 0)
                       ELSE Exit([i \in 1..Len(r.stmts) |-> String(r.stmts[i], 0)], "", 0)

\* ------------------------------------------------------------ input trees
IdA == Ident("a", "Unquoted")
IdB == Ident("b", "BackTicks")
IdC == Ident("c", "DoubleQuote")
IdT == Ident("t", "Unquoted")
IdU == Ident("u", "Unquoted")
IdDb == Ident("db", "Unquoted")
Num1 == NumberLiteral("1")
Num10 == NumberLiteral("10")

\* sequences of 1..n elements of S
SeqsUpTo(S, n) == UNION {[1..k -> S] : k \in 1..n}

Atoms == {IdA, Num1}

CaseExprs ==
    {CaseExpr(e, <<WhenExpr(IdA, Num1, Nil)>>, els) : e \in {Nil, IdB}, els \in {Nil, Num10}}

Exprs ==
    Atoms
    \cup {BinaryExpr(IdA, o, Num1, FALSE, FALSE) : o \in {"=", "::"}}
    \cup {BinaryExpr(IdA, "IN", IdB, g, n) : g \in BOOLEAN, n \in BOOLEAN}
    \cup {TernaryExpr(BinaryExpr(IdA, "=", Num1, FALSE, FALSE), IdB, Num10),
          IsNullExpr(IdA), ExtractExpr(Ident("DAY", "Unquoted"), IdA), AliasExpr(IdA, IdB)}
    \cup CaseExprs

ColumnLists == {ColumnExprList(FALSE, items) : items \in SeqsUpTo(Atoms, MaxCols)}

PlainSelect(cols, from, where) ==
    SelectQuery(Nil, Nil, cols, from, where, Nil, Nil, Nil, Nil, Nil, Nil)

Select1 == PlainSelect(ColumnExprList(FALSE, <<Num1>>), Nil, Nil)

TableIds == {TableIdentifier(d, IdT) : d \in {Nil, IdDb}}

TableExprs == {TableExpr(e, Nil, FALSE) : e \in {TableIdentifier(Nil, IdT), Select1}}

SampleRatios ==
    {SampleRatioExpr(RatioExpr(Num1, Num10), o) : o \in {Nil, RatioExpr(Num1, Nil)}}

JoinTables ==
    {JoinTableExpr(t, s, f) : t \in TableExprs, s \in {Nil} \cup SampleRatios, f \in BOOLEAN}

OnA == JoinConstraintExpr(ColumnExprList(FALSE, <<BinaryExpr(IdA, "=", IdB, FALSE, FALSE)>>), Nil)

JoinOperands == {JoinTableExpr(t, Nil, FALSE) : t \in TableExprs}

JoinModifiers == {<<>>, <<"LEFT", "JOIN">>}

\* the join trees the grammar builds: the root holds the first table, every
\* further table hangs in a JoinExpr of the Right chain
JoinTails1 ==
    {JoinExpr(l, Nil, m, c) : l \in JoinOperands, m \in JoinModifiers, c \in {Nil, OnA}}

JoinTails2 ==
    {JoinExpr(JoinTableExpr(TableExpr(TableIdentifier(Nil, IdU), Nil, FALSE), Nil, FALSE),
              r, m, Nil) : r \in JoinTails1, m \in JoinModifiers}

JoinExprs == {JoinExpr(l, r, <<>>, Nil) : l \in JoinOperands, r \in JoinTails1 \cup JoinTails2}

FromExprs == {FromExpr(e) : e \in JoinTables \cup JoinExprs}

\* join trees assembled by a caller, whose root carries modifiers and a constraint
BuiltJoinExprs ==
    {JoinExpr(JoinTableExpr(TableExpr(TableIdentifier(Nil, IdT), Nil, FALSE), Nil, FALSE),
              r, <<"LEFT", "JOIN">>, OnA) : r \in {Nil} \cup JoinTails1}

Selects ==
    {PlainSelect(c, Nil, Nil) : c \in ColumnLists}
    \cup {PlainSelect(ColumnExprList(FALSE, <<IdA>>), f, w) :
            f \in FromExprs, w \in {Nil, WhereExpr(BinaryExpr(IdA, "=", Num1, FALSE, FALSE))}}
    \cup {SelectQuery(Nil, Nil, ColumnExprList(d, <<IdA>>), Nil, Nil, Nil, l, Nil, ua, Nil, Nil) :
            d \in BOOLEAN, l \in {Nil, LimitExpr(Num10, Nil), LimitExpr(Num10, Num1)},
            ua \in {Nil, Select1}}
    \cup {SelectQuery(WithExpr(<<CTEExpr(IdT, Select1)>>), Nil,
                      ColumnExprList(FALSE, <<AliasExpr(Select1, IdB)>>),
                      Nil, Nil, Nil, Nil, Nil, Nil, Nil, Nil)}

ColumnA == Column(NestedIdentifier(IdA, Nil), ScalarTypeExpr(Ident("UInt8", "Unquoted")))

AlterExprs ==
    {AlterTableAddColumn(ColumnA, i, a) :
        i \in BOOLEAN, a \in {Nil, NestedIdentifier(IdB, Nil)}}
    \cup {AlterTableDropColumn(NestedIdentifier(IdC, Nil), i) : i \in BOOLEAN}
    \cup {AlterTableDetachPartition(p, s) :
            p \in {PartitionExpr(Num1, Nil, FALSE), PartitionExpr(Nil, Nil, TRUE),
                   PartitionExpr(Nil, StringLiteral("p"), FALSE)},
            s \in {Nil, SettingsExprList(<<SettingsExpr(IdA, Num1)>>)}}

OnClusters == {Nil, OnClusterExpr(IdC)}

AlterTables ==
    {AlterTable(TableIdentifier(Nil, IdT), c, es) :
        c \in OnClusters, es \in SeqsUpTo(AlterExprs, 1)}
    \cup {AlterTable(TableIdentifier(IdDb, IdT), Nil,
                     <<AlterTableAddColumn(ColumnA, FALSE, Nil), e>>) : e \in AlterExprs}

\* the ALTER TABLE statements made of column operations only
ColumnAlters ==
    {a \in AlterTables :
        \A i \in 1..Len(a.AlterExprs) :
            a.AlterExprs[i].kind \in {"AlterTableAddColumn", "AlterTableDropColumn"}}

SchemaA == TableSchemaExpr(<<ColumnA>>, Nil, Nil)

Creates ==
    {CreateTable(t, i, u, c, SchemaA, Nil, q, FALSE) :
        t \in TableIds, i \in BOOLEAN, u \in {Nil, UUID(StringLiteral("x"))},
        c \in OnClusters, q \in {Nil, SubQueryExpr(Select1)}}
    \cup {CreateMaterializedView(TableIdentifier(Nil, IdT), FALSE, c, Nil, d,
                                 SubQueryExpr(Select1), p) :
            c \in OnClusters, p \in BOOLEAN,
            d \in {Nil, DestinationExpr(TableIdentifier(Nil, IdU), Nil),
                   DestinationExpr(TableIdentifier(Nil, IdU), SchemaA)}}

Systems == {SystemFlushExpr(l, d) : l \in BOOLEAN, d \in {Nil, TableIdentifier(Nil, IdT)}}

\* identifiers of one, two and three parts, each part in any quote style
Parts == {IdA, IdB, IdC}

Identifiers ==
    Parts
    \cup {NestedIdentifier(i, d) : i \in Parts, d \in {Nil} \cup Parts}
    \cup {TableIdentifier(d, t) : d \in {Nil} \cup Parts, t \in Parts}
    \cup {ColumnIdentifier(Nil, t, c) : t \in {Nil} \cup Parts, c \in Parts}
    \cup {ColumnIdentifier(d, t, c) : d \in Parts, t \in Parts, c \in Parts}

\* LIMIT n [OFFSET m] BY cols
LimitByExprs ==
    {LimitByExpr(LimitExpr(Num10, o), ColumnExprList(FALSE, <<IdA>>)) : o \in {Nil, Num1}}

\* ALTER TABLE operations that take IF EXISTS or IF NOT EXISTS
AlterOps ==
    {AlterTableAddColumn(ColumnA, i, a) :
        i \in BOOLEAN, a \in {Nil, NestedIdentifier(IdB, Nil)}}
    \cup {AlterTableDropColumn(NestedIdentifier(IdC, Nil), i) : i \in BOOLEAN}
    \cup {AlterTableDropIndex(NestedIdentifier(IdC, Nil), i) : i \in BOOLEAN}
    \cup {AlterTableClearColumn(i, NestedIdentifier(IdC, Nil), Nil) : i \in BOOLEAN}
    \cup {AlterTableRenameColumn(i, NestedIdentifier(IdA, Nil), NestedIdentifier(IdB, Nil)) :
            i \in BOOLEAN}

\* SELECT queries over the table t with each clause present or absent
ClauseSelects ==
    {SelectQuery(Nil, top, ColumnExprList(d, <<IdA>>), from, where, Nil, limit, settings,
                 ua, Nil, Nil) :
        top \in {Nil, TopExpr(Num10, FALSE)},
        d \in BOOLEAN,
        from \in {Nil, FromExpr(JoinTableExpr(TableExpr(TableIdentifier(Nil, IdT), Nil, FALSE),
                                              Nil, FALSE))},
        where \in {Nil, WhereExpr(BinaryExpr(IdA, "=", Num1, FALSE, FALSE))},
        limit \in {Nil, LimitExpr(Num10, Nil)},
        settings \in {Nil, SettingsExprList(<<SettingsExpr(IdB, Num1)>>)},
        ua \in {Nil, Select1}}

Directions == {"PRECEDING", "FOLLOWING"}

\* the extents of a window frame
FrameExtents ==
    {WindowFrameUnbounded(d) : d \in Directions}
    \cup {WindowFrameNumber(Num1, d) : d \in Directions}
    \cup {WindowFrameCurrentRow}

\* WINDOW w AS ( [ROWS extent] )
WindowExprs ==
    {WindowExpr(WindowConditionExpr(Nil, Nil, f), Ident("w", "Unquoted")) :
        f \in {Nil} \cup {WindowFrameExpr("ROWS", e) : e \in FrameExtents}}

\* unary plus and unary minus
UnaryExprs == {UnaryExpr(k, e) : k \in {"+", "-"}, e \in Atoms}

\* role names and GRANT statements, with and without ON CLUSTER
RoleNames ==
    {RoleName(Ident("r", "Unquoted"), s, c) :
        s \in {Nil, StringLiteral("h")}, c \in OnClusters}

Grants ==
    {GrantPrivilegeExpr(c, ps, TableIdentifier(Nil, IdT), <<Ident("r", "Unquoted")>>, opts) :
        c \in OnClusters,
        ps \in {<<PrivilegeExpr(<<"SELECT">>, Nil)>>,
                <<PrivilegeExpr(<<"SELECT">>, Nil), PrivilegeExpr(<<"ALTER", "TABLE">>, Nil)>>},
        opts \in {<<>>, <<"GRANT">>}}

\* number literals of each base, with their lexemes
Numbers ==
    {NumberLiteral("10") @@ [Base |-> 10], NumberLiteral("0x1F") @@ [Base |-> 16],
     NumberLiteral("1e3") @@ [Base |-> 10]}

\* the nodes that print a number literal of theirs
NumberPrinters ==
    Numbers
    \cup {RatioExpr(n, d) : n \in Numbers, d \in {Nil, Num10}}
    \cup {TopExpr(n, w) : n \in Numbers, w \in BOOLEAN}
    \cup {CompressionCodec(Ident("ZSTD", "Unquoted"), l) : l \in {Nil} \cup Numbers}
    \cup {WindowFrameNumber(n, d) : n \in Numbers, d \in {"PRECEDING", "FOLLOWING"}}

\* Trees with the positions of a source text: every leaf carries the byte
\* range of its token, every keyword-position field the offset of its keyword.
\* Each tree below is one source text starting at offset s.
SrcIdent(name, s) == Ident(name, "Unquoted") @@ [NamePos |-> s, NameEnd |-> s + Len(name)]

SrcNumber(lit, s) == NumberLiteral(lit) @@ [NumPos |-> s, NumEnd |-> s + Len(lit)]

\* a = 1
SrcBinary(s) == BinaryExpr(SrcIdent("a", s), "=", SrcNumber("1", s + 4), FALSE, FALSE)

\* e IS NULL, e ending at offset p
SrcIsNull(e, p) == IsNullExpr(e) @@ [IsPos |-> p + 1]

\* e AS b, e ending at offset p
SrcAlias(e, p) == AliasExpr(e, SrcIdent("b", p + 4)) @@ [AliasPos |-> p + 1]

\* a table name as a join operand
SrcTable(name, s) ==
    JoinTableExpr(TableExpr(TableIdentifier(Nil, SrcIdent(name, s)), Nil, FALSE)
                      @@ [TablePos |-> s, TableEnd |-> s + Len(name)],
                  Nil, FALSE)
        @@ [StatementEnd |-> s + Len(name)]

\* ON a
SrcOn(s) ==
    JoinConstraintExpr(ColumnExprList(FALSE, <<SrcIdent("a", s + 3)>>)
                           @@ [ListPos |-> s + 3, ListEnd |-> s + 4],
                       Nil)
        @@ [ConstraintPos |-> s]

\* t JOIN u    and    t JOIN u ON a
SrcJoin(s, on) ==
    JoinExpr(SrcTable("t", s),
             JoinExpr(SrcTable("u", s + 7), Nil, <<"JOIN">>, IF on THEN SrcOn(s + 9) ELSE Nil)
                 @@ [JoinPos |-> s + 2],
             <<>>, Nil)
        @@ [JoinPos |-> s]

\* SELECT 1
SrcSelect(s) ==
    PlainSelect(ColumnExprList(FALSE, <<SrcNumber("1", s + 7)>>)
                    @@ [ListPos |-> s + 7, ListEnd |-> s + 8],
                Nil, Nil)
        @@ [SelectPos |-> s, StatementEnd |-> s + 8]

\* t AS (SELECT 1)
SrcCTE(s) == CTEExpr(SrcIdent("t", s), SrcSelect(s + 6)) @@ [CTEPos |-> s]

\* SETTINGS a=1
SrcSettings(s) ==
    SettingsExprList(<<SettingsExpr(SrcIdent("a", s + 9), SrcNumber("1", s + 11))
                           @@ [SettingsPos |-> s + 9]>>)
        @@ [SettingsPos |-> s, ListEnd |-> s + 12]

\* DETACH PARTITION 1    and    DETACH PARTITION 1 SETTINGS a=1
SrcDetach(s, settings) ==
    AlterTableDetachPartition(
        PartitionExpr(SrcNumber("1", s + 17), Nil, FALSE) @@ [PartitionPos |-> s + 7],
        IF settings THEN SrcSettings(s + 19) ELSE Nil)
        @@ [DetachPos |-> s]

\* DETACH PARTITION ALL
SrcDetachAll(s) ==
    AlterTableDetachPartition(PartitionExpr(Nil, Nil, TRUE) @@ [PartitionPos |-> s + 7], Nil)
        @@ [DetachPos |-> s]

\* CHECK TABLE t    and    CHECK TABLE t PARTITION 1
SrcCheck(s, partition) ==
    CheckExpr(TableIdentifier(Nil, SrcIdent("t", s + 12)),
              IF partition
              THEN PartitionExpr(SrcNumber("1", s + 24), Nil, FALSE) @@ [PartitionPos |-> s + 14]
              ELSE Nil)
        @@ [CheckPos |-> s]

SrcRoots ==
    UNION {{SrcIdent("a", s), SrcNumber("10", s), SrcBinary(s), SrcSelect(s), SrcCTE(s),
            SrcTable("t", s), SrcOn(s),
            SrcIsNull(SrcIdent("a", s), s + 1), SrcIsNull(SrcBinary(s), s + 5),
            SrcAlias(SrcIdent("a", s), s + 1), SrcAlias(SrcBinary(s), s + 5),
            SrcAlias(SrcIsNull(SrcIdent("a", s), s + 1), s + 9)}
           \cup {SrcJoin(s, on) : on \in BOOLEAN}
           \cup {SrcDetach(s, st) : st \in BOOLEAN}
           \cup {SrcDetachAll(s)} \cup {SrcCheck(s, p) : p \in BOOLEAN} : s \in 0..MaxStart}

Roots ==
    Exprs \cup JoinTables \cup JoinExprs \cup FromExprs \cup Selects
    \cup AlterTables \cup Creates \cup Systems \cup SrcRoots \cup BuiltJoinExprs
    \cup Identifiers \cup LimitByExprs \cup NumberPrinters \cup AlterOps
    \cup ClauseSelects \cup FrameExtents \cup WindowExprs \cup UnaryExprs
    \cup RoleNames \cup Grants

\* the variants whose Visit hook a visitor of the model may fail
FailKinds ==
    {"Ident", "NumberLiteral", "SampleRatioExpr", "JoinTableExpr", "SelectQuery",
     "TableIdentifier", "Column"}

Visitors == {{}} \cup {{k} : k \in FailKinds}

\* ---------------------------------------------------------- state machine
NotCalled == "<not called>"

NotReturned == [kind |-> "unset", at |-> <<>>]

NotParsed == [kind |-> "unset"]

NotRun == Exit(<<>>, "", 0 - 1)

TypeOK ==
    /\ root \in Roots
    /\ level \in 0..MaxLevel
    /\ visitor \in Visitors
    /\ calls \in 0..MaxCalls

Init ==
    /\ root \in Roots
    /\ level \in 0..MaxLevel
    /\ visitor \in Visitors
    /\ text = NotCalled
    /\ calls = 0
    /\ trace = <<>>
    /\ ret = NotReturned
    /\ range = <<>>
    /\ reparsed = NotParsed
    /\ argv = <<>>
    /\ exit = NotRun

\* root.String(level) with a write to the tree: the DISTINCT flag of the
\* column list is cleared once it is printed
CallStringClearsDistinct ==
    /\ calls < MaxCalls
    /\ text' = String(root, level)
    /\ calls' = calls + 1
    /\ root' = IF root.kind = "SelectQuery" /\ root.SelectColumns # Nil
               THEN [root EXCEPT !.SelectColumns.HasDistinct = FALSE]
               ELSE root
    /\ UNCHANGED <<level, visitor, trace, ret, range, reparsed, argv, exit>>

\* root.String(level); no String method assigns to a field of a node
CallString ==
    /\ calls < MaxCalls
    /\ text' = String(root, level)
    /\ calls' = calls + 1
    /\ UNCHANGED <<root, level, visitor, trace, ret, range, reparsed, argv, exit>>

\* root.Accept(visitor), with a visitor whose hooks do not write to the tree;
\* no Accept method assigns to a field of a node
CallAccept ==
    /\ ret = NotReturned
    /\ LET r == Accept(root, <<>>, visitor)
       IN /\ trace' = r.ev
          /\ ret' = r.err
    /\ UNCHANGED <<root, level, visitor, text, calls, range, reparsed, argv, exit>>

\* root.Pos() and root.End(), on a tree built from a source text
CallPosEnd ==
    /\ range = <<>>
    /\ root \in SrcRoots
    /\ range' = <<Pos(root), End(root)>>
    /\ UNCHANGED <<root, level, visitor, text, calls, trace, ret, reparsed, argv, exit>>

\* parse(root.String(0)), for the statements the modelled productions cover
CallParse ==
    /\ reparsed = NotParsed
    /\ root \in ColumnAlters
    /\ reparsed' = Parse(String(root, 0))
    /\ UNCHANGED <<root, level, visitor, text, calls, trace, ret, range, argv, exit>>

Next == CallString \/ CallAccept \/ CallPosEnd \/ CallParse

Spec == Init /\ [][Next]_vars

\* ------------------------------------------- state machine of the tool
MaxArgs == 3

Words ==
    {"-format", "-h", "-f", "-f=q.sql", "--", "-x",
     SqlOne, SqlTwo, SqlBad, "q.sql", "bad.sql", "none.sql"}

CommandLines == {<<>>} \cup SeqsUpTo(Words, MaxArgs)

InitCLI ==
    /\ root = Nil
    /\ level = 0
    /\ visitor = {}
    /\ text = NotCalled
    /\ calls = 0
    /\ trace = <<>>
    /\ ret = NotReturned
    /\ range = <<>>
    /\ reparsed = NotParsed
    /\ argv \in CommandLines
    /\ exit = NotRun

\* one run of the tool on the command line argv
RunMain ==
    /\ exit = NotRun
    /\ exit' = main(argv)
    /\ UNCHANGED <<root, level, visitor, text, calls, trace, ret, range, reparsed, argv>>

NextCLI == RunMain

SpecCLI == InitCLI /\ [][NextCLI]_vars

\* ------------------------------------------------------ visitor properties
\* the fields of a node that hold a child node, and those that hold a list
\* of child nodes (the struct declarations of ast.go)
NodeFields ==
    {"Condition", "TrueExpr", "FalseExpr", "LeftExpr", "RightExpr", "Table",
     "SampleRatio", "Ident", "DotIdent", "Database", "Numerator", "Denominator",
     "Ratio", "Offset", "Alias", "Expr", "Interval", "FromExpr", "Value", "ID", "Name",
     "TableIdentifier", "OnCluster", "Partition", "Settings", "Column", "After",
     "ColumnName", "Type", "NotNull", "Nullable", "Property", "Codec", "TTL", "Comment",
     "CompressionCodec", "AliasTable", "TableFunction", "TableSchema", "Select", "UUID",
     "Engine", "SubQuery", "Destination", "When", "Then", "Else", "Number", "Left",
     "Right", "Constraints", "On", "Using", "Limit", "ByExpr", "With", "Top",
     "SelectColumns", "From", "ArrayJoin", "Window", "Prewhere", "Where", "GroupBy",
     "Having", "OrderBy", "LimitBy", "UnionAll", "UnionDistinct", "Except", "Distributed",
     "Level", "IndexName", "PartitionExpr", "OldColumnName", "NewColumnName",
     "WindowConditionExpr", "PartitionBy", "Frame", "Extend", "Scope", "Params"}

ListFields == {"Items", "AlterExprs", "Columns", "Whens", "CTEs", "Privileges", "To"}

LeafKinds == {"Ident", "NumberLiteral", "StringLiteral"}

\* the present children of a node, each with its place below the node
Children(n) ==
    IF n.kind \in LeafKinds THEN {}
    ELSE {[at |-> <<f>>, node |-> n[f]] : f \in {g \in DOMAIN n \cap NodeFields : n[g] # Nil}}
         \cup UNION {{[at |-> <<f, ToString(i)>>, node |-> n[f][i]] : i \in 1..Len(n[f])} :
                       f \in DOMAIN n \cap ListFields}

\* the places of all nodes of the tree below (and including) n
RECURSIVE NodePaths(_, _)
NodePaths(n, path) ==
    {path} \cup UNION {NodePaths(c.node, path \o c.at) : c \in Children(n)}

StatementKinds ==
    {"SelectQuery", "AlterTable", "CreateTable", "CreateMaterializedView", "SystemFlushExpr"}

Accepted == ret # NotReturned

AllHooksSucceeded == Accepted /\ visitor = {} /\ ret = NoErr

EventsAt(t, path) == {i \in 1..Len(trace) : trace[i].t = t /\ trace[i].at = path}

IsPrefix(p, q) == Len(p) <= Len(q) /\ SubSeq(q, 1, Len(p)) = p

\* C2: when all hooks succeed, every Accept call produces enter(N), then the
\* traversals of N's children, then exactly one Visit hook of N, then
\* leave(N): each leave is directly preceded by the Visit hook of the same
\* node, and everything between enter(N) and that hook lies below N.
AcceptOrder ==
    AllHooksSucceeded =>
        /\ trace[1].t = "enter" /\ trace[1].at = <<>>
        /\ trace[Len(trace)].t = "leave" /\ trace[Len(trace)].at = <<>>
        /\ \A i \in 1..Len(trace) :
              trace[i].t = "leave" =>
                 /\ i > 1
                 /\ trace[i - 1].t = "visit" /\ trace[i - 1].at = trace[i].at
                 /\ Cardinality(EventsAt("visit", trace[i].at)) = 1
                 /\ \E e \in EventsAt("enter", trace[i].at) :
                       /\ e < i
                       /\ \A k \in (e + 1)..(i - 2) :
                             /\ IsPrefix(trace[i].at, trace[k].at)
                             /\ trace[k].at # trace[i].at

\* C3: in a traversal of a statement in which every hook succeeds, every
\* node of the tree is entered exactly once and has its Visit hook called
\* exactly once.
VisitorCompleteness ==
    (AllHooksSucceeded /\ root.kind \in StatementKinds) =>
        \A p \in NodePaths(root, <<>>) :
            /\ Cardinality(EventsAt("enter", p)) = 1
            /\ Cardinality(EventsAt("visit", p)) = 1

FailingHooks == {i \in 1..Len(trace) : trace[i].t = "visit" /\ trace[i].kind \in visitor}

\* C4: once a Visit hook has returned a failure, no enter and no Visit call
\* follows it, and Accept on the root returns that failure unchanged.
FailurePropagation ==
    (Accepted /\ FailingHooks # {}) =>
        \A i \in FailingHooks :
            /\ \A j \in (i + 1)..Len(trace) : trace[j].t = "leave"
            /\ ret = [kind |-> trace[i].kind, at |-> trace[i].at]

\* a hook fails deep inside a SELECT, with siblings and ancestors still to come
FailurePropagationWitness ==
    /\ Accepted
    /\ root.kind = "SelectQuery"
    /\ FailingHooks # {}
    /\ ret.kind = "Ident" /\ Len(ret.at) >= 3
    /\ Cardinality(NodePaths(root, <<>>)) > Cardinality({trace[i].at : i \in 1..Len(trace)})

\* the enter/leave events of the trace are matched like brackets
RECURSIVE Nested(_, _)
Nested(events, stack) ==
    IF events = <<>> THEN stack = <<>>
    ELSE LET e == Head(events)
         IN CASE e.t = "enter" -> Nested(Tail(events), <<e.at>> \o stack)
              [] e.t = "leave" -> /\ stack # <<>>
                                  /\ Head(stack) = e.at
                                  /\ Nested(Tail(events), Tail(stack))
              [] OTHER -> Nested(Tail(events), stack)

\* C5: in every traversal, complete or cut short by a failing hook, the
\* enter and leave calls are properly nested: every enter(N) has exactly one
\* later leave(N), which comes after the leave of every node entered after N.
ProperNesting ==
    Accepted =>
        /\ Nested(trace, <<>>)
        /\ \A i \in 1..Len(trace) :
              trace[i].t = "enter" =>
                 Cardinality({j \in EventsAt("leave", trace[i].at) : j > i}) = 1

\* a traversal of a materialized view cut short below the root
ProperNestingWitness ==
    /\ Accepted
    /\ root.kind = "CreateMaterializedView"
    /\ ret.kind = "Ident" /\ Len(ret.at) >= 2
    /\ Len(trace) > 4

\* ----------------------------------------------------- position properties
\* all nodes of the tree below (and including) n
RECURSIVE Nodes(_)
Nodes(n) == {n} \cup UNION {Nodes(c.node) : c \in Children(n)}

Positioned == range # <<>>

\* C6: for every node of a tree built from a source text, Pos() <= End().
PosBeforeEnd ==
    Positioned => \A n \in Nodes(root) : Pos(n) <= End(n)

\* C7: for every node N of a tree built from a source text and every present
\* child C of N, Pos(N) <= Pos(C) and End(C) <= End(N).
PositionContainment ==
    Positioned =>
        \A n \in Nodes(root) :
            \A c \in Children(n) : Pos(n) <= Pos(c.node) /\ End(c.node) <= End(n)

\* ----------------------------------------------------- printing properties
Printed == text # NotCalled

\* C8: String(level) returns a string, without dereferencing an absent child,
\* for every tree in which only optional parts of the grammar are absent.
StringInfallible ==
    Printed => text # Panic

\* the JoinExpr nodes of a join tree, from n along the Right links
RECURSIVE RightChain(_)
RightChain(n) ==
    IF n = Nil \/ n.kind # "JoinExpr" THEN <<>> ELSE <<n>> \o RightChain(n.Right)

\* what one join node contributes: its modifiers (or ","), its left child,
\* its constraint when present
JoinItem(n, lvl) ==
    (IF n.Modifiers = <<>> THEN ","
     ELSE NewLine(lvl) ++ StringsJoin(n.Modifiers, " ") ++ " ")
    ++ String(n.Left, lvl)
    ++ (IF n.Constraints # Nil THEN " " ++ String(n.Constraints, lvl) ELSE "")

JoinItems(ns, lvl) == Cat([i \in 1..Len(ns) |-> JoinItem(ns[i], lvl)])

JoinPrinted == Printed /\ text # Panic /\ root.kind = "JoinExpr"

Occurrences(w, t) == {i \in 1..(Len(t) - Len(w) + 1) : SubSeq(t, i, i + Len(w) - 1) = w}

\* the number of parentheses open just before offset i of the text
OpenAt(t, i) ==
    Cardinality({k \in Occurrences("(", t) : k < i})
    - Cardinality({k \in Occurrences(")", t) : k < i})

\* C10: every SelectQuery printed as a table expression under a FromExpr, as
\* the only table or as an operand of a join, and every SelectQuery printed
\* under an AliasExpr, stands inside a matching pair of parentheses.
SubqueriesParenthesised ==
    (Printed /\ text # Panic /\ root.kind \in {"FromExpr", "AliasExpr"}) =>
        /\ \A i \in Occurrences("SELECT", text) : OpenAt(text, i) > 0
        /\ OpenAt(text, Len(text) + 1) = 0

\* --------------------------------------------------- round-trip properties
Reparsed == reparsed # NotParsed

\* C1: parsing the text String(0) prints for a parsed statement yields a tree
\* structurally equal to the statement, position fields ignored.
RoundTrip ==
    Reparsed => reparsed = root

\* ------------------------------------------------------ clause properties
\* C11: LimitByExpr.String emits LIMIT n [OFFSET m] BY cols: the LIMIT
\* keyword and the limit value once, an OFFSET part only when the limit has
\* an offset, and " BY " with the column list at the end.
LimitByPrinting ==
    (Printed /\ root.kind = "LimitByExpr") =>
        /\ text = "LIMIT " \o String(root.Limit.Limit, level)
                  \o (IF root.Limit.Offset # Nil
                      THEN " OFFSET " \o String(root.Limit.Offset, level) ELSE "")
                  \o " BY " \o String(root.ByExpr, level)
        /\ Cardinality(Occurrences("LIMIT", text)) = 1

\* the name of an identifier in the quotes of its quote style
Quoted(i) ==
    CASE i.QuoteType = "BackTicks" -> BackTick \o i.Name \o BackTick
      [] i.QuoteType = "DoubleQuote" -> "\"" \o i.Name \o "\""
      [] OTHER -> i.Name

\* the parts of an identifier, in the order they are written
IdentParts(n) ==
    CASE n.kind = "Ident" -> <<n>>
      [] n.kind = "NestedIdentifier" -> <<n.Ident>> \o (IF n.DotIdent # Nil THEN <<n.DotIdent>> ELSE <<>>)
      [] n.kind = "TableIdentifier" -> (IF n.Database # Nil THEN <<n.Database>> ELSE <<>>) \o <<n.Table>>
      [] n.kind = "ColumnIdentifier" ->
           (IF n.Database # Nil THEN <<n.Database>> ELSE <<>>)
           \o (IF n.Table # Nil THEN <<n.Table>> ELSE <<>>) \o <<n.Column>>

IdentifierKinds == {"Ident", "NestedIdentifier", "TableIdentifier", "ColumnIdentifier"}

\* C12: an Ident prints as its name in back-ticks, in double quotes or bare,
\* as its QuoteType says, and in a NestedIdentifier, TableIdentifier or
\* ColumnIdentifier every dot-separated part keeps its own quote style.
QuotePreservation ==
    (Printed /\ root.kind \in IdentifierKinds) =>
        LET ps == IdentParts(root)
        IN text = StringsJoin([k \in 1..Len(ps) |-> Quoted(ps[k])], ".")

\* a column identifier of three parts in three different quote styles
QuotePreservationWitness ==
    /\ Printed
    /\ root.kind = "ColumnIdentifier"
    /\ root.Database # Nil
    /\ Cardinality({root.Database.QuoteType, root.Table.QuoteType, root.Column.QuoteType}) = 3

\* a SelectQuery that has columns and no other clause
ColumnsOnly(s) ==
    /\ s.kind = "SelectQuery"
    /\ s.SelectColumns # Nil /\ ~s.SelectColumns.HasDistinct /\ Len(s.SelectColumns.Items) >= 1
    /\ \A f \in {"With", "Top", "From", "ArrayJoin", "Window", "Prewhere", "Where", "GroupBy",
                 "Having", "OrderBy", "LimitBy", "Limit", "Settings", "UnionAll",
                 "UnionDistinct", "Except"} : s[f] = Nil

\* n spaces
RECURSIVE Blanks(_)
Blanks(n) == IF n = 0 THEN "" ELSE " " \o Blanks(n - 1)

\* C13: a SelectQuery with k >= 1 columns and no other clause prints at
\* level L as a new line indented 2*L, "SELECT ", and every column on a new
\* line indented 2*(L+1), with a "," after every column but the last;
\* SELECT 1 at level 0 prints as "\nSELECT \n  1".
PlainSelectPrinting ==
    (Printed /\ ColumnsOnly(root)) =>
        LET cols == root.SelectColumns.Items
        IN /\ text = "\n" \o Blanks(2 * level) \o "SELECT "
                     \o Cat([i \in 1..Len(cols) |->
                               "\n" \o Blanks(2 * (level + 1)) \o String(cols[i], level)
                               \o (IF i < Len(cols) THEN "," ELSE "")])
           /\ (root = Select1 /\ level = 0) => text = "\nSELECT \n  1"

\* two columns printed below the top level
PlainSelectPrintingWitness ==
    /\ Printed /\ ColumnsOnly(root)
    /\ Len(root.SelectColumns.Items) = 2
    /\ level = 1

Lexemes(n) ==
    {n[f].Literal : f \in {g \in DOMAIN n \cap NodeFields :
                              n[g] # Nil /\ n[g].kind = "NumberLiteral"}}

\* C17: a NumberLiteral prints as its Literal, whatever its Base and the
\* level, and a RatioExpr, TopExpr, CompressionCodec or WindowFrameNumber
\* prints the lexeme of each number it holds
NumberPreservation ==
    Printed /\ root \in NumberPrinters =>
        /\ text # Panic
        /\ root.kind = "NumberLiteral" => text = root.Literal
        /\ \A l \in Lexemes(root) : Occurrences(l, text) # {}

\* IF EXISTS or IF NOT EXISTS and the blank after it, when the flag is set
IfClause(flag, words) == IF flag THEN words \o " " ELSE ""

\* C18: an ALTER operation with IF [NOT] EXISTS prints the keywords right
\* after COLUMN or INDEX and before the name or the definition, single
\* blanks between the parts, and AFTER last
IfExistsPlacement ==
    Printed /\ root \in AlterOps =>
        text =
        CASE root.kind = "AlterTableAddColumn" ->
               "ADD COLUMN " ++ IfClause(root.IfNotExists, "IF NOT EXISTS")
               ++ String(root.Column, level)
               ++ (IF root.After # Nil THEN " AFTER " ++ String(root.After, level) ELSE "")
          [] root.kind = "AlterTableDropColumn" ->
               "DROP COLUMN " ++ IfClause(root.IfExists, "IF EXISTS")
               ++ String(root.ColumnName, level)
          [] root.kind = "AlterTableDropIndex" ->
               "DROP INDEX " ++ IfClause(root.IfExists, "IF EXISTS")
               ++ String(root.IndexName, level)
          [] root.kind = "AlterTableClearColumn" ->
               "CLEAR COLUMN " ++ IfClause(root.IfExists, "IF EXISTS")
               ++ String(root.ColumnName, level)
          [] root.kind = "AlterTableRenameColumn" ->
               "RENAME COLUMN " ++ IfClause(root.IfExists, "IF EXISTS")
               ++ String(root.OldColumnName, level) ++ " TO "
               ++ String(root.NewColumnName, level)

\* the keywords of the clauses of a SELECT query in the order of the grammar,
\* each with whether the query has the clause
ClauseWords(q) ==
    << [word |-> "SELECT ", on |-> TRUE],
       [word |-> "DISTINCT", on |-> q.SelectColumns.HasDistinct],
       [word |-> "TOP ", on |-> q.Top # Nil],
       [word |-> "FROM", on |-> q.From # Nil],
       [word |-> "WHERE", on |-> q.Where # Nil],
       [word |-> "LIMIT ", on |-> q.Limit # Nil],
       [word |-> "SETTINGS", on |-> q.Settings # Nil],
       [word |-> "UNION ALL", on |-> q.UnionAll # Nil] >>

\* the offset of the first occurrence of w in the printed text
First(w) == CHOOSE i \in Occurrences(w, text) : \A j \in Occurrences(w, text) : i <= j

\* C19: the clauses a SELECT query has are printed in the order SELECT,
\* DISTINCT, TOP, columns, FROM, WHERE, LIMIT, SETTINGS, UNION ALL
ClauseOrder ==
    Printed /\ root \in ClauseSelects =>
        LET ws == ClauseWords(root)
        IN /\ \A i \in 1..Len(ws) : ws[i].on => Occurrences(ws[i].word, text) # {}
           /\ \A i \in 1..Len(ws), j \in 1..Len(ws) :
                i < j /\ ws[i].on /\ ws[j].on => First(ws[i].word) < First(ws[j].word)

\* C20: a BinaryExpr prints GLOBAL when HasGlobal and NOT when HasNot, each
\* whatever the other, as left GLOBAL NOT op right, with one blank on each
\* side of the operator, and no blank around ::
BinaryPrinting ==
    Printed /\ root.kind = "BinaryExpr" =>
        text =
        String(root.LeftExpr, level)
        ++ (IF root.Operation = opTypeCast THEN ""
            ELSE " " \o (IF root.HasGlobal THEN "GLOBAL " ELSE "")
                 \o (IF root.HasNot THEN "NOT " ELSE ""))
        ++ root.Operation
        ++ (IF root.Operation = opTypeCast THEN "" ELSE " ")
        ++ String(root.RightExpr, level)

\* C21: a TopExpr prints TOP and the lexeme of its number, and WITH TIES
\* after the number when WithTies is set
TopPrinting ==
    Printed /\ root.kind = "TopExpr" =>
        text = "TOP " \o root.Number.Literal
               \o (IF root.WithTies THEN " WITH TIES" ELSE "")

\* C22: a JoinTableExpr with FINAL and a SAMPLE clause prints the table,
\* then FINAL, then the SAMPLE clause, and the FINAL keyword once
FinalBeforeSample ==
    Printed /\ root.kind = "JoinTableExpr" /\ root.HasFinal /\ root.SampleRatio # Nil
    /\ ~root.Table.HasFinal =>
        /\ text = String(root.Table, level) ++ " FINAL " ++ String(root.SampleRatio, level)
        /\ Cardinality(Occurrences("FINAL", text)) = 1

\* C23: the extents of a window frame print with the direction last:
\* UNBOUNDED and the direction, the number and the direction, CURRENT ROW
FramePrinting ==
    Printed /\ root \in FrameExtents =>
        text = CASE root.kind = "WindowFrameUnbounded" -> "UNBOUNDED " \o root.Direction
                 [] root.kind = "WindowFrameNumber" ->
                      root.Number.Literal \o " " \o root.Direction
                 [] root.kind = "WindowFrameCurrentRow" -> "CURRENT ROW"

\* C24: a WindowExpr prints WINDOW, the name, AS, and the window definition
\* in parentheses
WindowPrinting ==
    Printed /\ root.kind = "WindowExpr" =>
        /\ text = "WINDOW " ++ String(root.Name, level) ++ " AS "
                  ++ String(root.WindowConditionExpr, level)
        /\ SubSeq(String(root.WindowConditionExpr, level), 1, 1) = "("

\* C25: a UnaryExpr prints the operator of its Kind and then the operand
UnaryPrinting ==
    Printed /\ root.kind = "UnaryExpr" =>
        text = root.Kind ++ String(root.Expr, level + 1)

\* the nodes whose children print texts that differ from one another
OrderRoots == {n \in Roots : n.kind \in {"TernaryExpr", "BinaryExpr", "WindowExpr"}}

\* the offset in the trace at which the child at path p is entered
EnteredAt(p) == CHOOSE i \in EventsAt("enter", p) : TRUE

\* C26: Accept visits the present children of a node in the order in which
\* String prints them
VisitInPrintOrder ==
    AllHooksSucceeded /\ Printed /\ text # Panic /\ root \in OrderRoots =>
        \A c \in Children(root), d \in Children(root) :
            /\ EventsAt("enter", c.at) # {}
            /\ Occurrences(String(c.node, level), text) # {}
            /\ EnteredAt(c.at) < EnteredAt(d.at) =>
                  First(String(c.node, level)) < First(String(d.node, level))

\* trees without position fields that differ in a flag, an operator or a
\* lexeme
FlagRoots ==
    {n \in Exprs \cup NumberPrinters \cup UnaryExprs :
        n.kind \in {"BinaryExpr", "TopExpr", "UnaryExpr"}}

\* C27: two trees of the same kind that differ in a field other than a
\* position print to different texts at level 0
PrintingInjective ==
    Printed /\ level = 0 /\ root \in FlagRoots =>
        \A other \in FlagRoots :
            other.kind = root.kind /\ other # root => String(other, 0) # text

\* the levels handed to NewLine by n.String(lvl), for the variants of the
\* CREATE statements and of what they hold
RECURSIVE NewLineLevels(_, _)
NewLineLevels(n, lvl) ==
    LET below(c, l) == IF c # Nil THEN NewLineLevels(c, l) ELSE {}
        line(c, l) == IF c # Nil THEN {l} \cup NewLineLevels(c, l) ELSE {}
    IN CASE n.kind = "CreateTable" ->
              line(n.UUID, lvl) \cup line(n.OnCluster, lvl) \cup line(n.TableSchema, lvl)
              \cup below(n.Engine, lvl) \cup below(n.SubQuery, lvl)
         [] n.kind = "CreateMaterializedView" ->
              line(n.OnCluster, lvl) \cup below(n.Engine, lvl)
              \cup line(n.Destination, lvl)
              \cup (IF n.Destination # Nil /\ n.Destination.TableSchema # Nil
                    THEN {lvl} \cup NewLineLevels(n.Destination.TableSchema, lvl + 1)
                    ELSE {})
              \cup below(n.SubQuery, lvl)
         [] n.kind = "TableSchemaExpr" ->
              IF Len(n.Columns) > 0 THEN {lvl + 1, lvl - 1} ELSE {}
         [] n.kind = "SubQueryExpr" -> NewLineLevels(n.Select, lvl + 1) \cup {lvl}
         [] n.kind = "SelectQuery" ->
              {lvl}
              \cup (IF n.With # Nil \/ n.Top # Nil \/ Len(n.SelectColumns.Items) > 0
                    THEN {lvl + 1} ELSE {})
              \cup line(n.From, lvl) \cup line(n.Where, lvl) \cup line(n.LimitBy, lvl)
              \cup line(n.Limit, lvl) \cup line(n.Settings, lvl)
              \cup line(n.UnionAll, lvl) \cup line(n.UnionDistinct, lvl)
              \cup line(n.Except, lvl)
         [] n.kind = "FromExpr" -> {lvl + 1} \cup NewLineLevels(n.Expr, lvl + 1)
         [] n.kind = "WhereExpr" -> {lvl + 1}
         [] OTHER -> {}

\* C28: while a CREATE statement is printed at level 0, every call of
\* NewLine is given a level of 0 or more
NonNegativeLevels ==
    Printed /\ level = 0 /\ root \in Creates =>
        \A l \in NewLineLevels(root, 0) : l >= 0

\* C29: Pos() and End() return a position on every tree on which String
\* returns a text, whichever optional children are absent
PosEndTotal ==
    Positioned /\ String(root, 0) # Panic =>
        range[1] # NilPos /\ range[2] # NilPos

WhiteSpace == {" ", "\n"}

\* C30: an ON CLUSTER clause is printed with one ON keyword and with white
\* space before and after it: once after the name (and scope) of a RoleName,
\* and before the first privilege of a GrantPrivilegeExpr
OnClusterSeparated ==
    Printed /\ root \in RoleNames \cup Grants /\ root.OnCluster # Nil =>
        LET clause == String(root.OnCluster, level)
            at == First(clause)
            next == at + Len(clause)
        IN /\ Occurrences(clause, text) # {}
           /\ at > 1 /\ CharAt(text, at - 1) \in WhiteSpace
           /\ next <= Len(text) => CharAt(text, next) \in WhiteSpace
           /\ root.kind = "RoleName" =>
                 text = String(root.Name, level)
                        ++ (IF root.Scope # Nil THEN "@" ++ String(root.Scope, level) ELSE "")
                        ++ " " ++ clause

\* ------------------------------------------------- properties of the tool
\* the flags of the command line of the run
Flags == FlagParse(argv, options)

\* the run is over and went past the flags and the help
Ran == exit # NotRun /\ Flags.status = "ok" /\ argv # <<>> /\ ~Flags.help

\* the SQL strings that parse, on their own or with -format before or after
Positional == {<<q>> : q \in {SqlOne, SqlTwo}}

FormatFirst == {<<"-format", q>> : q \in {SqlOne, SqlTwo}}

FormatLast == {<<q, "-format">> : q \in {SqlOne, SqlTwo}}

\* the output of the formatting mode for the SQL string q
Formatted(q) ==
    LET stmts == ParseStatements(q).stmts
    IN [i \in 1..Len(stmts) |-> String(stmts[i], 0)]

\* C15: a run on a positional SQL string that parses prints String(0) of
\* each statement, in order, when -format is on the command line, before or
\* after the SQL string, and the JSON of the statements when it is not
ModeSelection ==
    exit # NotRun =>
        /\ argv \in Positional => exit.stdout = <<MarshalIndent(ParseStatements(argv[1]).stmts)>>
        /\ argv \in FormatFirst => exit.stdout = Formatted(argv[2])
        /\ argv \in FormatLast => exit.stdout = Formatted(argv[1])

\* the run read the file named by -f and the read failed
ReadFails == Ran /\ Flags.file # "" /\ ReadFile(Flags.file).err # ""

\* the run handed a text to the parser
Parses ==
    /\ Ran
    /\ ~ReadFails
    /\ Flags.file = "" => ~HasPrefix(argv[Len(argv)], "-")

\* the text handed to the parser
Input == IF Flags.file # "" THEN ReadFile(Flags.file).bytes ELSE argv[Len(argv)]

ParseFails == Parses /\ ParseStatements(Input).err # ""

\* the run ended with a status other than 0, the message on the error
\* stream and nothing on the output
Reports(message) ==
    /\ exit.code # 0
    /\ Occurrences(message, exit.stderr) # {}
    /\ exit.stdout = <<>>

====
